---- MODULE Spec2Model ----
(***************************************************************************)
(* Name resolution core of vhdl_lang: regions, overload sets, scopes and   *)
(* the cached lookup of src/vhdl_lang/src/analysis/region.rs.              *)
(*                                                                         *)
(* A scope chain is the sequence `scopes`: scopes[1] is the outermost      *)
(* scope, scopes[Len(scopes)] the innermost one, and the parent of         *)
(* scopes[i] is scopes[i-1].  A child borrows its parent immutably, so     *)
(* only the innermost scope is mutated.  `diags` holds what the last       *)
(* operation pushed to the diagnostic handler it was given, `last` the     *)
(* operation, its arguments, the binding it found and its result.          *)
(* `body_pos` is the set of protected types whose body position cell is    *)
(* set: the one field of a published entity that changes later.            *)
(* `ast` is the name or aggregate under analysis with its reference slots, *)
(* `check` a TypeCheck accumulator and `checked` the results added to it.  *)
(***************************************************************************)
EXTENDS Integers, Sequences, FiniteSets, TLC

VARIABLES scopes, diags, last, body_pos, ast, check, checked

vars == <<scopes, diags, last, body_pos, ast, check, checked>>

(***************************************************************************)
(* Bounds of the model                                                     *)
(***************************************************************************)
MaxDepth == 3
MaxNest == 2
MaxDecl == 3
MaxVis == 1
MaxChecks == 4
MaxUse == 2

(***************************************************************************)
(* Designators, entities                                                   *)
(***************************************************************************)
Designators == {"a", "b", "c"}

Ent(id, des, kind, key, implicit, actual, pos) ==
    [id |-> id, des |-> des, kind |-> kind, key |-> key,
     implicit |-> implicit, actual |-> actual, pos |-> pos]

OverloadedKinds == {"Subprogram", "SubprogramDecl", "EnumLiteral", "Alias"}

\* OverloadedEnt::from_any succeeds on AnyEntKind::Overloaded
is_overloaded(e) == e.kind \in OverloadedKinds
is_implicit(e) == e.implicit
is_explicit(e) == ~e.implicit
is_subprogram(e) == e.kind = "Subprogram"
is_subprogram_decl(e) == e.kind = "SubprogramDecl"
is_deferred_constant(e) == e.kind = "DeferredConstant"
is_non_deferred_constant(e) == e.kind = "Constant"
as_actual(e) == e.actual

(***************************************************************************)
(* NamedEntities: None | Single(ent) | Overloaded(key -> ent); a lookup    *)
(* may also end in a diagnostic (Err).                                     *)
(***************************************************************************)
NoneB == [tag |-> "None"]
Single(e) == [tag |-> "Single", ent |-> e]
Overloaded(m) == [tag |-> "Overloaded", map |-> m]
Err(msg) == [tag |-> "Err", msg |-> msg]

Diag(msg, name, pos, related) ==
    [msg |-> msg, name |-> name, pos |-> pos, related |-> related]

Max(S) == CHOOSE x \in S : \A y \in S : y <= x
Min(S) == CHOOSE x \in S : \A y \in S : x <= y

\* the element of a singleton
The(S) == CHOOSE x \in S : TRUE

\* OverloadedName::new: every entity is stored under the key of its
\* signature, a later entity of the list replaces an earlier one
RECURSIVE OverloadedName_new(_)
OverloadedName_new_keyed_by_id(ents) ==
    [k \in {ents[n].id : n \in DOMAIN ents} |->
        ents[Max({n \in DOMAIN ents : ents[n].id = k})]]

OverloadedName_new(ents) ==
    IF ents = <<>> THEN <<>>
    ELSE LET n == Len(ents)
             head == OverloadedName_new(SubSeq(ents, 1, n - 1))
             e == ents[n]
         IN [k \in (DOMAIN head) \cup {e.key} |->
                IF k = e.key THEN e ELSE head[k]]

\* OverloadedName::first: the first entry in the map's iteration order
first(m) == m[Min(DOMAIN m)]

NamedEntities_new_always_single(e) == Single(e)

NamedEntities_new(e) ==
    IF is_overloaded(e) THEN Overloaded(OverloadedName_new(<<e>>))
    ELSE Single(e)

duplicate_error_swapped(name, pos, prev_pos) ==
    Diag("Duplicate declaration", name, prev_pos, <<pos>>)

duplicate_error(name, pos, prev_pos) ==
    Diag("Duplicate declaration", name, pos, <<prev_pos>>)

\* the first two silent rules of OverloadedName::insert: ent replaces old_ent
insert_replaces_without_body_rule(old_ent, ent) ==
    is_implicit(old_ent) /\ is_explicit(ent)

insert_replaces(old_ent, ent) ==
    \/ (is_implicit(old_ent) /\ is_explicit(ent))
    \/ (is_subprogram_decl(old_ent) /\ is_subprogram(ent))

\* the third silent rule: an implicit declaration of the same actual entity
insert_same_actual_by_own_id(old_ent, ent) ==
    is_implicit(old_ent) /\ is_implicit(ent) /\ old_ent.id = ent.id

insert_same_actual(old_ent, ent) ==
    is_implicit(old_ent) /\ is_implicit(ent) /\ as_actual(old_ent) = as_actual(ent)

\* the fourth silent rule: an implicit declaration never hides an explicit one
insert_keeps_explicit_never(old_ent, ent) == FALSE

insert_keeps_explicit(old_ent, ent) ==
    is_explicit(old_ent) /\ is_implicit(ent)

insert_duplicate_replacing(m, ent) ==
    [map |-> [m EXCEPT ![ent.key] = ent],
     err |-> <<Diag("Duplicate declaration with signature",
                    ent.des, ent.pos, <<m[ent.key].pos>>)>>]

\* the Err(diagnostic) exit of OverloadedName::insert: the map is left as it is
insert_duplicate(m, ent) ==
    [map |-> m,
     err |-> <<Diag("Duplicate declaration with signature",
                    ent.des, ent.pos, <<m[ent.key].pos>>)>>]

insert(m, ent) ==
    LET k == ent.key IN
    IF k \in DOMAIN m
    THEN LET old_ent == m[k] IN
         IF insert_replaces(old_ent, ent)
         THEN [map |-> [m EXCEPT ![k] = ent], err |-> <<>>]
         ELSE IF insert_same_actual(old_ent, ent)
         THEN [map |-> m, err |-> <<>>]
         ELSE IF insert_keeps_explicit(old_ent, ent)
         THEN [map |-> m, err |-> <<>>]
         ELSE insert_duplicate(m, ent)
    ELSE [map |-> [x \in (DOMAIN m) \cup {k} |->
                      IF x = k THEN ent ELSE m[x]],
          err |-> <<>>]

with_visible_right_biased(self, visible) ==
    [k \in (DOMAIN self) \cup (DOMAIN visible) |->
        IF k \in DOMAIN visible THEN visible[k] ELSE self[k]]

with_visible(self, visible) ==
    [k \in (DOMAIN self) \cup (DOMAIN visible) |->
        IF k \in DOMAIN self THEN self[k] ELSE visible[k]]

(***************************************************************************)
(* Region                                                                  *)
(***************************************************************************)
Region_default ==
    [visibility |-> {}, entities |-> [d \in Designators |-> NoneB],
     kind |-> "Other"]

Region_lookup_immediate(r, d) == r.entities[d]

rejects_deferred_constant_in_body_only(r, ent) ==
    is_deferred_constant(ent) /\ r.kind = "PackageBody"

\* the first check of Region::add
rejects_deferred_constant(r, ent) ==
    is_deferred_constant(ent) /\ r.kind # "PackageDeclaration"

overwrites_deferred_constant_in_declaration(r) ==
    r.kind \in {"PackageBody", "PackageDeclaration"}

\* the full declaration of a deferred constant overwrites it in a package body
overwrites_deferred_constant(r) == r.kind = "PackageBody"

Region_add_overwriting(r, ent) ==
    IF rejects_deferred_constant(r, ent)
    THEN [region |-> r,
          diags |-> <<Diag("Deferred constants are only allowed in package declarations (not body)",
                           ent.des, ent.pos, <<>>)>>]
    ELSE [region |-> [r EXCEPT !.entities[ent.des] = NamedEntities_new(ent)],
          diags |-> <<>>]

Region_add(r, ent) ==
    IF rejects_deferred_constant(r, ent)
    THEN [region |-> r,
          diags |-> <<Diag("Deferred constants are only allowed in package declarations (not body)",
                           ent.des, ent.pos, <<>>)>>]
    ELSE LET prev_ents == r.entities[ent.des] IN
         CASE prev_ents.tag = "None" ->
                [region |-> [r EXCEPT !.entities[ent.des] = NamedEntities_new(ent)],
                 diags |-> <<>>]
           [] prev_ents.tag = "Single" ->
                LET prev_ent == prev_ents.ent IN
                IF prev_ent.id = ent.id
                THEN [region |-> [r EXCEPT !.entities[ent.des] = Single(ent)],
                      diags |-> <<>>]
                ELSE IF is_deferred_constant(prev_ent) /\ is_non_deferred_constant(ent)
                THEN IF overwrites_deferred_constant(r)
                     THEN [region |-> [r EXCEPT !.entities[ent.des] = Single(ent)],
                           diags |-> <<>>]
                     ELSE [region |-> r,
                           diags |-> <<Diag("Full declaration of deferred constant is only allowed in a package body",
                                            ent.des, ent.pos, <<>>)>>]
                ELSE [region |-> r,
                      diags |-> <<duplicate_error(prev_ent.des, ent.pos, prev_ent.pos)>>]
           [] prev_ents.tag = "Overloaded" ->
                IF is_overloaded(ent)
                THEN LET res == insert(prev_ents.map, ent) IN
                     [region |-> [r EXCEPT !.entities[ent.des] = Overloaded(res.map)],
                      diags |-> res.err]
                ELSE [region |-> r,
                      diags |-> <<duplicate_error(first(prev_ents.map).des, ent.pos,
                                                  first(prev_ents.map).pos)>>]

is_protected_type(e) == e.kind = "Protected"

\* NamedEntities::first
NamedEntities_first(b) == IF b.tag = "Single" THEN b.ent ELSE first(b.map)

\* the order in which entities.values() yields the bindings of a region
DesignatorOrder == <<"a", "b", "c">>

RECURSIVE deferred_constants_reported_in_body_only(_, _)
deferred_constants_reported_in_body_only(r, n) ==
    IF n = 0 \/ r.kind # "PackageBody" THEN <<>>
    ELSE LET ent == r.entities[DesignatorOrder[n]] IN
         deferred_constants_reported_in_body_only(r, n - 1) \o
         (IF ent.tag # "None" /\ is_deferred_constant(NamedEntities_first(ent))
          THEN <<Diag("Deferred constant lacks corresponding full constant declaration in package body",
                      DesignatorOrder[n], NamedEntities_first(ent).pos, <<>>)>>
          ELSE <<>>)

\* Region::check_deferred_constant_pairs over the first n bindings
RECURSIVE check_deferred_constant_pairs(_, _)
check_deferred_constant_pairs(r, n) ==
    IF n = 0 \/ r.kind \notin {"PackageDeclaration", "PackageBody"} THEN <<>>
    ELSE LET ent == r.entities[DesignatorOrder[n]] IN
         check_deferred_constant_pairs(r, n - 1) \o
         (IF ent.tag # "None" /\ is_deferred_constant(NamedEntities_first(ent))
          THEN <<Diag("Deferred constant lacks corresponding full constant declaration in package body",
                      DesignatorOrder[n], NamedEntities_first(ent).pos, <<>>)>>
          ELSE <<>>)

\* Region::check_protected_types_have_body over the first n bindings; cells
\* is the set of protected types whose body position is set
RECURSIVE check_protected_types_have_body(_, _, _)
check_protected_types_have_body(r, cells, n) ==
    IF n = 0 THEN <<>>
    ELSE LET ent == r.entities[DesignatorOrder[n]] IN
         check_protected_types_have_body(r, cells, n - 1) \o
         (IF /\ ent.tag # "None"
             /\ is_protected_type(NamedEntities_first(ent))
             /\ NamedEntities_first(ent).id \notin cells
          THEN <<Diag("Missing body for protected type",
                      DesignatorOrder[n], NamedEntities_first(ent).pos, <<>>)>>
          ELSE <<>>)

\* Region::close: the diagnostics it pushes
Region_close(r, cells) ==
    check_deferred_constant_pairs(r, Len(DesignatorOrder))
        \o check_protected_types_have_body(r, cells, Len(DesignatorOrder))

(***************************************************************************)
(* Visibility: the entities made potentially visible in a region, each     *)
(* under the designator it is visible as.                                  *)
(***************************************************************************)
VisibleAs(name, e) == [name |-> name, ent |-> e]

\* Visibility::make_all_potentially_visible: every immediate binding of the
\* used region becomes visible under its designator
RegionBindings(r) ==
    UNION {LET b == r.entities[d] IN
           CASE b.tag = "Single" -> {VisibleAs(d, b.ent)}
             [] b.tag = "Overloaded" -> {VisibleAs(d, b.map[k]) : k \in DOMAIN b.map}
             [] OTHER -> {}
           : d \in Designators}

RECURSIVE SortById(_)
SortById(S) ==
    IF S = {} THEN <<>>
    ELSE LET m == CHOOSE e \in S : \A f \in S : e.id <= f.id
         IN <<m>> \o SortById(S \ {m})

\* Scope::lookup_visiblity_into: the candidates of this scope and of all its
\* ancestors, one per entity id
Candidates(sc, i, d) ==
    LET all == {p.ent : p \in {q \in UNION {sc[j].region.visibility : j \in 1..i} :
                                  q.name = d}}
    IN {CHOOSE e \in all : e.id = n : n \in {e.id : e \in all}}

\* Visible::into_unambiguous
into_unambiguous(cands) ==
    IF cands = {} THEN NoneB
    ELSE IF Cardinality(cands) = 1 THEN NamedEntities_new(CHOOSE e \in cands : TRUE)
    ELSE IF \A e \in cands : is_overloaded(e)
    THEN Overloaded(OverloadedName_new(SortById(cands)))
    ELSE Err("ambiguous")

lookup_visible(sc, i, d) == into_unambiguous(Candidates(sc, i, d))

(***************************************************************************)
(* Scope                                                                   *)
(***************************************************************************)
EmptyCache == [d \in Designators |-> NoneB]

Scope_new(region) == [region |-> region, cache |-> EmptyCache]

lookup_immediate(sc, i, d) == Region_lookup_immediate(sc[i].region, d)

\* every overload declared for d in scopes 1..i, inner first, Singles skipped
RECURSIVE OverloadsAbove(_, _, _)
OverloadsAbove(sc, i, d) ==
    IF i = 0 THEN <<>>
    ELSE The({IF immediate.tag = "Overloaded"
              THEN with_visible(immediate.map, OverloadsAbove(sc, i - 1, d))
              ELSE OverloadsAbove(sc, i - 1, d)
              : immediate \in {lookup_immediate(sc, i, d)}})

RECURSIVE lookup_enclosing(_, _, _)
lookup_enclosing_crossing_single(sc, i, d) ==
    IF i = 0 THEN NoneB
    ELSE The({CASE immediate.tag = "Single" -> immediate
                [] immediate.tag = "Overloaded" ->
                     Overloaded(with_visible(immediate.map,
                                             OverloadsAbove(sc, i - 1, d)))
                [] OTHER -> lookup_enclosing(sc, i - 1, d)
              : immediate \in {lookup_immediate(sc, i, d)}})

lookup_enclosing(sc, i, d) ==
    IF i = 0 THEN NoneB
    ELSE The({CASE immediate.tag = "Single" -> immediate
                [] immediate.tag = "Overloaded" ->
                     The({IF enclosing.tag = "Overloaded"
                          THEN Overloaded(with_visible(immediate.map, enclosing.map))
                          ELSE immediate
                          : enclosing \in {lookup_enclosing(sc, i - 1, d)}})
                [] OTHER -> lookup_enclosing(sc, i - 1, d)
              : immediate \in {lookup_immediate(sc, i, d)}})

lookup_uncached_visible_first(sc, i, d) ==
    The({IF result.tag = "None" THEN Err("No declaration") ELSE result
         : result \in
             {IF visible.tag = "Overloaded" /\ enclosing.tag = "Overloaded"
              THEN Overloaded(with_visible(enclosing.map, visible.map))
              ELSE IF visible.tag # "None" THEN visible ELSE enclosing
              : enclosing \in {lookup_enclosing(sc, i, d)},
                visible \in {lookup_visible(sc, i, d)}}})

lookup_uncached(sc, i, d) ==
    The({IF result.tag = "None" THEN Err("No declaration") ELSE result
         : result \in
             {IF enclosing.tag # "None"
              THEN IF enclosing.tag = "Single" THEN enclosing
                   ELSE The({IF visible.tag = "Overloaded"
                             THEN Overloaded(with_visible(enclosing.map, visible.map))
                             ELSE enclosing
                             : visible \in {lookup_visible(sc, i, d)}})
              ELSE lookup_visible(sc, i, d)
              : enclosing \in {lookup_enclosing(sc, i, d)}}})

\* Scope::lookup: the value returned and the cache left behind
Scope_lookup(sc, i, d) ==
    IF sc[i].cache[d].tag # "None"
    THEN [res |-> sc[i].cache[d], cache |-> sc[i].cache]
    ELSE The({IF ents.tag = "Err"
              THEN [res |-> ents, cache |-> sc[i].cache]
              ELSE [res |-> ents, cache |-> [sc[i].cache EXCEPT ![d] = ents]]
              : ents \in {lookup_uncached(sc, i, d)}})

(***************************************************************************)
(* The entities the operations are called with                             *)
(***************************************************************************)
NoEnt == [id |-> 0]
\* no name is under analysis
NoAst == [form |-> "None"]

\* des "a": an object, three subprograms (f1 and f2 share a signature)
s1 == Ent(1, "a", "Object", 0, FALSE, 1, 1)
f1 == Ent(2, "a", "Subprogram", 1, FALSE, 2, 2)
f2 == Ent(3, "a", "Subprogram", 1, FALSE, 3, 3)
g == Ent(4, "a", "Subprogram", 2, FALSE, 4, 4)
\* a type "b", whose implicit declarations are <<ts>>, and an alias "c" of it
t == Ent(5, "b", "Type", 0, FALSE, 5, 5)
ts == Ent(6, "a", "SubprogramDecl", 2, TRUE, 6, 5)
at == Ent(7, "c", "Type", 0, FALSE, 5, 7)

\* des "a": the declarations Region::add tells apart
ty_inc == Ent(11, "a", "IncompleteType", 0, FALSE, 11, 11)
ty_full == Ent(11, "a", "Type", 0, FALSE, 11, 12)
dc == Ent(14, "a", "DeferredConstant", 0, FALSE, 14, 14)
c == Ent(15, "a", "Constant", 0, FALSE, 15, 15)
pd == Ent(16, "a", "SubprogramDecl", 1, FALSE, 16, 16)
pd2 == Ent(17, "a", "SubprogramDecl", 1, FALSE, 17, 17)
pb == Ent(18, "a", "Subprogram", 1, FALSE, 18, 18)
ia1 == Ent(19, "a", "Alias", 1, TRUE, 30, 19)
ia2 == Ent(20, "a", "Alias", 1, TRUE, 30, 20)
ia3 == Ent(21, "a", "Alias", 1, TRUE, 31, 21)
ib == Ent(23, "a", "Subprogram", 1, TRUE, 23, 23)
el == Ent(24, "a", "EnumLiteral", 2, FALSE, 24, 24)

h == Ent(8, "b", "Subprogram", 2, FALSE, 8, 8)

\* a deferred constant "c" and two protected types
dc2 == Ent(26, "c", "DeferredConstant", 0, FALSE, 26, 26)
pt == Ent(27, "b", "Protected", 0, FALSE, 27, 27)
pt2 == Ent(28, "c", "Protected", 0, FALSE, 28, 28)

ScopeEnts == {s1, f1, h}
WalkEnts == {s1, f1, f2, g}
RegionEnts == {ty_inc, ty_full, dc, c, pd, pd2, pb, ia1, ia2, ia3, ib, el}
TypeEnts == {t, at}

\* the declarations names refer to: objects of integer, array and record
\* type, two functions "c", and the element "a" of the record type
x_int == Ent(40, "a", "Object", 0, FALSE, 40, 40)
x_arr == Ent(41, "b", "Object", 0, FALSE, 41, 41)
x_rec == Ent(42, "c", "Object", 0, FALSE, 42, 42)
fn_i == Ent(43, "c", "Subprogram", 1, FALSE, 43, 43)
fn_a == Ent(44, "c", "Subprogram", 2, FALSE, 44, 44)
elem_a == Ent(45, "a", "ElementDeclaration", 0, FALSE, 45, 45)
NameEnts == {x_int, x_arr, x_rec, fn_i, fn_a, t}

\* what the prefix of a call-shaped name may denote besides: objects of a
\* two-dimensional array type and of an access type to the array type, a
\* procedure and a label
x_arr2 == Ent(46, "c", "Object", 0, FALSE, 46, 46)
x_acc == Ent(47, "c", "Object", 0, FALSE, 47, 47)
pr == Ent(48, "c", "Subprogram", 3, FALSE, 48, 48)
lb == Ent(49, "b", "Label", 0, FALSE, 49, 49)
CallEnts == {x_int, x_arr, x_arr2, x_acc, fn_i, pr, lb, t}
RenamedEnts == {x_arr}
CloseEnts == {dc, c, pb, dc2, pt, pt2}
SetEnts == {s1, g, pd, pb, ia1}
UsedEnts == {f2, g}
ProtectedTypes == {pt, pt2}

\* AnyEntKind::implicit_declarations of the actual type
implicit_declarations(ent) == IF as_actual(ent) = t.id THEN <<ts>> ELSE <<>>

\* the alias carrying the type as its actual entity instead of the implicit
\* declaration
ImplicitAlias_of_type(ent, implicit) ==
    Ent(100 + 10 * ent.id + implicit.id, implicit.des, "Alias", implicit.key,
        TRUE, as_actual(ent), ent.pos)

\* AnyEnt::implicit(ent, designator, Overloaded::Alias(implicit), decl_pos)
ImplicitAlias(ent, implicit) ==
    Ent(100 + 10 * ent.id + implicit.id, implicit.des, "Alias", implicit.key,
        TRUE, as_actual(implicit), ent.pos)

\* the regions named by use clauses and context references
Pkg2 == [Region_default EXCEPT !.entities["a"] = Single(s1),
                               !.kind = "PackageDeclaration"]
Packages == {Pkg2}
Ctx1 == [Region_default EXCEPT !.visibility = {VisibleAs("a", f1)}]
Contexts == {Ctx1}

(***************************************************************************)
(* Size of a scope chain                                                   *)
(***************************************************************************)
BindingSize(b) ==
    CASE b.tag = "Single" -> 1
      [] b.tag = "Overloaded" -> Cardinality(DOMAIN b.map)
      [] OTHER -> 0

RECURSIVE SumOver(_, _)
SumOver(f, S) ==
    IF S = {} THEN 0
    ELSE LET x == CHOOSE y \in S : TRUE IN f[x] + SumOver(f, S \ {x})

RegionSize(r) == SumOver([d \in Designators |-> BindingSize(r.entities[d])], Designators)
DeclCount(sc) == SumOver([i \in DOMAIN sc |-> RegionSize(sc[i].region)], DOMAIN sc)
VisCount(sc) == SumOver([i \in DOMAIN sc |-> Cardinality(sc[i].region.visibility)], DOMAIN sc)

Top == Len(scopes)

\* the chain may grow only up to MaxDecl declared entities
WithinDecl(new) == DeclCount(new) <= MaxDecl \/ DeclCount(new) <= DeclCount(scopes)

Last(op, lvl, d, ent, pre, res) ==
    [op |-> op, lvl |-> lvl, d |-> d, ent |-> ent, pre |-> pre, res |-> res]

(***************************************************************************)
(* Scope operations                                                        *)
(***************************************************************************)
Init ==
    /\ scopes = <<Scope_new(Region_default)>>
    /\ diags = <<>>
    /\ last = Last("new", 1, "-", NoEnt, NoneB, NoneB)
    /\ body_pos = {}
    /\ ast = NoAst
    /\ check = "Ok"
    /\ checked = <<>>

\* Scope::add on one scope: the scope and the diagnostics it leaves
Scope_add(scope, ent) ==
    LET r == Region_add(scope.region, ent) IN
    [scope |-> [region |-> r.region,
                cache |-> [scope.cache EXCEPT ![ent.des] = NoneB]],
     diags |-> r.diags]

add(ent) ==
    /\ scopes # <<>>
    /\ UNCHANGED <<body_pos, ast, check, checked>>
    /\ LET r == Scope_add(scopes[Top], ent) IN
        /\ WithinDecl([scopes EXCEPT ![Top] = r.scope])
        /\ scopes' = [scopes EXCEPT ![Top] = r.scope]
        /\ diags' = r.diags
    /\ last' = Last("add", Top, ent.des, ent, scopes[Top].region.entities, NoneB)

RECURSIVE AddAliases(_, _, _)
AddAliases(scope, ent, implicits) ==
    IF implicits = <<>> THEN [scope |-> scope, diags |-> <<>>]
    ELSE LET implicit == Head(implicits) IN
         IF is_overloaded(implicit)
         THEN LET r == Scope_add(scope, ImplicitAlias(ent, implicit))
                  rest == AddAliases(r.scope, ent, Tail(implicits))
              IN [scope |-> rest.scope, diags |-> r.diags \o rest.diags]
         ELSE AddAliases(scope, ent, Tail(implicits))

add_implicit_declaration_aliases(ent) ==
    /\ scopes # <<>>
    /\ UNCHANGED <<body_pos, ast, check, checked>>
    /\ LET r == AddAliases(scopes[Top], ent, implicit_declarations(ent)) IN
        /\ WithinDecl([scopes EXCEPT ![Top] = r.scope])
        /\ scopes' = [scopes EXCEPT ![Top] = r.scope]
        /\ diags' = r.diags
    /\ last' = Last("add_implicit_declaration_aliases", Top, "-", ent,
                    scopes[Top].region.entities, NoneB)

\* the innermost scope with more visibility and the given cache
WithVisibility(more, cache) ==
    [scopes EXCEPT ![Top] = [region |-> [@.region EXCEPT !.visibility = @ \cup more],
                             cache |-> cache]]

make_potentially_visible(ent) ==
    /\ scopes # <<>>
    /\ UNCHANGED <<body_pos, ast, check, checked>>
    /\ LET new == WithVisibility({VisibleAs(ent.des, ent)},
                                 [scopes[Top].cache EXCEPT ![ent.des] = NoneB]) IN
        /\ VisCount(new) <= MaxVis
        /\ scopes' = new
    /\ diags' = <<>>
    /\ last' = Last("make_potentially_visible", Top, ent.des, ent, NoneB, NoneB)

\* Scope::make_potentially_visible_with_name, while the chain holds at most
\* limit visible entities
make_potentially_visible_with_name_within(limit, designator, ent) ==
    /\ scopes # <<>>
    /\ UNCHANGED <<body_pos, ast, check, checked>>
    /\ LET new == WithVisibility({VisibleAs(designator, ent)},
                                 [scopes[Top].cache EXCEPT ![ent.des] = NoneB]) IN
        /\ VisCount(new) <= limit
        /\ scopes' = new
    /\ diags' = <<>>
    /\ last' = Last("make_potentially_visible_with_name", Top, designator, ent, NoneB, NoneB)

make_potentially_visible_with_name(designator, ent) ==
    make_potentially_visible_with_name_within(MaxVis, designator, ent)

make_all_potentially_visible(region) ==
    /\ scopes # <<>>
    /\ UNCHANGED <<body_pos, ast, check, checked>>
    /\ LET new == WithVisibility(RegionBindings(region), EmptyCache) IN
        /\ VisCount(new) <= MaxVis
        /\ scopes' = new
    /\ diags' = <<>>
    /\ last' = Last("make_all_potentially_visible", Top, "-", NoEnt, NoneB, NoneB)

add_context_visibility(region) ==
    /\ scopes # <<>>
    /\ UNCHANGED <<body_pos, ast, check, checked>>
    /\ LET new == WithVisibility(region.visibility, EmptyCache) IN
        /\ VisCount(new) <= MaxVis
        /\ scopes' = new
    /\ diags' = <<>>
    /\ last' = Last("add_context_visibility", Top, "-", NoEnt, NoneB, NoneB)

nested(limit) ==
    /\ scopes # <<>>
    /\ UNCHANGED <<body_pos, ast, check, checked>>
    /\ Len(scopes) < limit
    /\ scopes' = Append(scopes, [region |-> Region_default, cache |-> scopes[Top].cache])
    /\ diags' = <<>>
    /\ last' = Last("nested", Top + 1, "-", NoEnt, NoneB, NoneB)

\* the innermost scope goes out of scope
drop ==
    /\ Len(scopes) > 1
    /\ UNCHANGED <<body_pos, ast, check, checked>>
    /\ scopes' = SubSeq(scopes, 1, Top - 1)
    /\ diags' = <<>>
    /\ last' = Last("drop", Top - 1, "-", NoEnt, NoneB, NoneB)

lookup(designator) ==
    /\ scopes # <<>>
    /\ UNCHANGED <<body_pos, ast, check, checked>>
    /\ LET r == Scope_lookup(scopes, Top, designator) IN
        /\ scopes' = [scopes EXCEPT ![Top].cache = r.cache]
        /\ last' = Last("lookup", Top, designator, NoEnt, NoneB, r.res)
    /\ diags' = <<>>

in_package_declaration ==
    /\ scopes # <<>>
    /\ UNCHANGED <<body_pos, ast, check, checked>>
    /\ scopes' = [scopes EXCEPT ![Top] =
                     Scope_new([@.region EXCEPT !.kind = "PackageDeclaration"])]
    /\ diags' = <<>>
    /\ last' = Last("in_package_declaration", Top, "-", NoEnt, NoneB, NoneB)

\* the region of Scope::extend: a clone with the kind promoted
Extended_as_package_body(region) ==
    [visibility |-> region.visibility,
     entities |-> region.entities,
     kind |-> "PackageBody"]

Extended(region) ==
    [visibility |-> region.visibility,
     entities |-> region.entities,
     kind |-> IF region.kind = "PackageDeclaration" THEN "PackageBody" ELSE "Other"]

\* Scope::extend(scope.region(), Some(&scope)) on the innermost scope
extend(limit) ==
    /\ scopes # <<>>
    /\ UNCHANGED <<body_pos, ast, check, checked>>
    /\ Len(scopes) < limit
    /\ scopes' = Append(scopes, Scope_new(Extended(scopes[Top].region)))
    /\ diags' = <<>>
    /\ last' = Last("extend", Top + 1, "-", NoEnt, NoneB, NoneB)

\* Scope::close on the innermost scope
close ==
    /\ scopes # <<>>
    /\ UNCHANGED <<body_pos, ast, check, checked>>
    /\ scopes' = scopes
    /\ diags' = Region_close(scopes[Top].region, body_pos)
    /\ last' = Last("close", Top, "-", NoEnt, scopes[Top].region, NoneB)

\* the body of a protected type is analysed: its position is stored once
set_body_pos(ent) ==
    /\ is_protected_type(ent)
    /\ ent.id \notin body_pos
    /\ body_pos' = body_pos \cup {ent.id}
    /\ UNCHANGED <<ast, check, checked>>
    /\ scopes' = scopes
    /\ diags' = <<>>
    /\ last' = Last("set_body_pos", Top, ent.des, ent, NoneB, NoneB)

(***************************************************************************)
(* TypeCheck: the result of a type check and its accumulation              *)
(***************************************************************************)
TypeChecks == {"Ok", "NotOk", "Unknown"}

from_bool(b) == IF b THEN "Ok" ELSE "NotOk"

combine_unknown_sticky(self, other) ==
    CASE other = "Ok" -> self
      [] other = "NotOk" -> "NotOk"
      [] OTHER -> "Unknown"

\* TypeCheck::combine
combine(self, other) ==
    CASE other = "Ok" -> self
      [] other = "NotOk" -> "NotOk"
      [] OTHER -> IF self = "NotOk" THEN "NotOk" ELSE "Unknown"

\* let mut check = TypeCheck::Ok
TypeCheck_new ==
    /\ checked # <<>>
    /\ check' = "Ok"
    /\ checked' = <<>>
    /\ diags' = <<>>
    /\ last' = Last("TypeCheck_new", Top, "-", NoEnt, check, NoneB)
    /\ UNCHANGED <<scopes, body_pos, ast>>

\* TypeCheck::add
TypeCheck_add(other) ==
    /\ Len(checked) < MaxChecks
    /\ check' = combine(check, other)
    /\ checked' = Append(checked, other)
    /\ diags' = <<>>
    /\ last' = Last("TypeCheck_add", Top, other, NoEnt, check, NoneB)
    /\ UNCHANGED <<scopes, body_pos, ast>>

\* the accumulation of the results of the parts of an expression
NextCheck ==
    \/ TypeCheck_new
    \/ \E other \in TypeChecks : TypeCheck_add(other)

SpecCheck == Init /\ [][NextCheck]_vars

(***************************************************************************)
(* Names, aggregates and their reference slots                             *)
(*                                                                         *)
(* ast is one node: a simple name (Designator), a selected name pre.des    *)
(* (Selected), a call-shaped name des(0) or des(x => 0) (FunctionCall, and *)
(* Indexed once rewritten), an aggregate (des => 0) (Aggregate), or a      *)
(* qualified expression pre'(des) (Qualified).  ref is the reference slot  *)
(* of des, pref the slot of the prefix or type mark pre; NoEnt stands for  *)
(* an empty slot.  A diagnostic is at position 0 when it is about the node *)
(* as a whole; in a qualified expression the type mark is at position 1    *)
(* and the inner expression, which follows it, at position 2.              *)
(***************************************************************************)
Name(form, pre, des, positional) ==
    [form |-> form, pre |-> pre, pref |-> NoEnt, des |-> des, ref |-> NoEnt,
     positional |-> positional, args |-> <<"-">>, argrefs |-> <<NoEnt>>]

Asts ==
    {Name("Designator", "-", d, TRUE) : d \in Designators}
        \cup {Name("FunctionCall", "-", d, p) : d \in Designators, p \in BOOLEAN}
        \cup {Name("Selected", "c", d, TRUE) : d \in {"a", "b"}}
        \cup {Name("Aggregate", "-", d, TRUE) : d \in {"a", "b"}}
        \cup {Name("Qualified", m, "a", TRUE) : m \in {"b", "c"}}

TargetTypes == {"Integer", "Array", "Record"}

\* the base type of the subtype of an object or element
subtype_base(e) ==
    CASE e.id \in {x_int.id, elem_a.id} -> "Integer"
      [] e.id = x_arr.id -> "Array"
      [] e.id = x_arr2.id -> "Array2"
      [] e.id = x_acc.id -> "Access"
      [] e.id = x_rec.id -> "Record"
      [] OTHER -> "None"

\* the return type of a function
return_type(e) ==
    CASE e.id = fn_i.id -> "Integer"
      [] e.id = fn_a.id -> "Array"
      [] OTHER -> "None"

\* the number of indexes of an array type
index_types(typ) ==
    CASE typ = "Array" -> 1
      [] typ = "Array2" -> 2
      [] OTHER -> 0

\* Type::Array { .. }
is_array(typ) == typ \in {"Array", "Array2"}

\* the type an access type designates
designated(typ) == IF typ = "Access" THEN "Array" ELSE typ

\* the element type of the array types
elem_type(typ) == "Integer"

\* the position of the declaration of a type
TypePos(typ) ==
    CASE typ = "Array" -> 61
      [] typ = "Array2" -> 62
      [] OTHER -> 60

\* RecordRegion::lookup on the elements of the record type
RecordElems(d) == IF d = elem_a.des THEN elem_a ELSE NoEnt

is_type(e) == e.kind = "Type"

type_mark_of_sliced_or_indexed(ent) ==
    IF ent.kind \in {"Object", "DeferredConstant", "ElementDeclaration", "ObjectAlias"}
    THEN subtype_base(ent)
    ELSE "None"

match_with_target_type(ent, target_type) ==
    IF ent.kind \in {"Object", "DeferredConstant", "ElementDeclaration", "ObjectAlias"}
    THEN from_bool(subtype_base(ent) = target_type)
    ELSE "Unknown"

\* FunctionCall::to_indexed: every actual is a positional expression
to_indexed(name) == name.positional

\* OverloadedName::as_unique
as_unique(m) ==
    IF Cardinality(DOMAIN m) = 1 THEN m[CHOOSE k \in DOMAIN m : TRUE] ELSE NoEnt

\* SetReference::set_reference: the slot it leaves
set_reference(visible) ==
    IF visible.tag = "Single" THEN visible.ent ELSE as_unique(visible.map)

\* what an analysis leaves: the node, the diagnostics pushed, the cache of
\* the scope, the outcome of the resolution of des and the value returned
Res(node, pushed, cache, found, ret) ==
    [ast |-> node, diags |-> pushed, cache |-> cache, found |-> found, ret |-> ret]

NoAttempt == [tag |-> "NoAttempt"]
Checked(x) == [tag |-> "TypeCheck", check |-> x]

\* resolve_name on Name::Designator
resolve_designator(sc, name) ==
    LET looked_up(r) ==
            IF r.res.tag = "Err"
            THEN Res([name EXCEPT !.ref = NoEnt],
                     <<Diag(r.res.msg, name.des, 0, <<>>)>>, r.cache, r.res, NoneB)
            ELSE Res([name EXCEPT !.ref = set_reference(r.res)], <<>>, r.cache,
                     r.res, r.res)
    IN The({looked_up(val) : val \in {Scope_lookup(sc, Len(sc), name.des)}})

\* resolve_name on the prefix of a selected name, a Name::Designator
resolve_prefix(sc, name) ==
    LET looked_up(r) ==
            IF r.res.tag = "Err"
            THEN Res([name EXCEPT !.pref = NoEnt],
                     <<Diag(r.res.msg, name.pre, 0, <<>>)>>, r.cache, r.res, NoneB)
            ELSE Res([name EXCEPT !.pref = set_reference(r.res)], <<>>, r.cache,
                     r.res, r.res)
    IN The({looked_up(val) : val \in {Scope_lookup(sc, Len(sc), name.pre)}})

\* a design unit named c with its declarative region
Design(kind, region) ==
    [id |-> 50, des |-> "c", kind |-> kind, key |-> 0, implicit |-> FALSE,
     actual |-> 50, pos |-> 50, region |-> region]

\* Design::Package, Design::PackageInstance, Design::LocalPackageInstance
PackageDesigns == {"Package", "PackageInstance", "LocalPackageInstance"}

lookup_selected_with_use_clauses(prefix, suffix) ==
    IF prefix.kind \in PackageDesigns
    THEN IF Region_lookup_immediate(prefix.region, suffix).tag # "None"
         THEN Region_lookup_immediate(prefix.region, suffix)
         ELSE IF \E p \in prefix.region.visibility : p.name = suffix
         THEN into_unambiguous({p.ent : p \in {q \in prefix.region.visibility :
                                                  q.name = suffix}})
         ELSE Err("No declaration within")
    ELSE Err("Invalid selected name prefix")

\* lookup_selected: the suffix within the prefix entity; a library is not
\* among the prefixes
lookup_selected(prefix, suffix) ==
    CASE prefix.kind \in {"Object", "ObjectAlias", "ExternalAlias", "ElementDeclaration"} ->
            IF subtype_base(prefix) = "Record" /\ RecordElems(suffix) # NoEnt
            THEN Single(RecordElems(suffix))
            ELSE Err("No declaration within")
      [] prefix.kind \in PackageDesigns ->
            IF Region_lookup_immediate(prefix.region, suffix).tag # "None"
            THEN Region_lookup_immediate(prefix.region, suffix)
            ELSE Err("No declaration within")
      [] OTHER -> Err("Invalid selected name prefix")

\* the position of the n-th actual or index expression of a node; the name
\* before the parenthesis is at position 0
ArgPos(n) == n

\* analyze_expression on the actuals or index expressions from the n-th on,
\* in order: a literal "-" needs nothing, a simple name is resolved
RECURSIVE analyze_exprs(_, _, _)
analyze_exprs(sc, r, n) ==
    IF n > Len(r.ast.args) THEN r
    ELSE IF r.ast.args[n] = "-" THEN analyze_exprs(sc, r, n + 1)
    ELSE LET looked_up(l) ==
                 IF l.res.tag = "Err"
                 THEN [r EXCEPT !.ast.argrefs[n] = NoEnt,
                                !.diags = @ \o <<Diag(l.res.msg, r.ast.args[n],
                                                      ArgPos(n), <<>>)>>,
                                !.cache = l.cache]
                 ELSE [r EXCEPT !.ast.argrefs[n] = set_reference(l.res),
                                !.cache = l.cache]
         IN The({analyze_exprs(sc, looked_up(l), n + 1)
                 : l \in {Scope_lookup([sc EXCEPT ![Len(sc)].cache = r.cache],
                                       Len(sc), r.ast.args[n])}})

\* analyze_assoc_elems
analyze_assoc_elems(sc, r) == analyze_exprs(sc, r, 1)

plural_never_singular(singular, plural_form, count) == plural_form

plural(singular, plural_form, count) == IF count = 1 THEN singular ELSE plural_form

\* dimension_mismatch: the note reads '<type> has <expected> dimension(s),
\* got <got> index(es)'
dimension_mismatch(base_type, got, expected) ==
    Diag("Number of indexes does not match array dimension", base_type, 0,
         <<[pos |-> TypePos(base_type),
            type |-> base_type,
            expected |-> expected,
            dimension |-> plural("dimension", "dimensions", expected),
            got |-> got,
            index |-> plural("index", "indexes", got)]>>)

\* analyze_indexed_name on the indexes of the node of r: the diagnostics it
\* pushes are added to r, ret is the element type or the error it returns
analyze_indexed_name(sc, r, type_mark) ==
    LET base_type == designated(type_mark) IN
    IF is_array(base_type)
    THEN [analyze_exprs(sc,
                        [r EXCEPT !.diags =
                            @ \o (IF Len(r.ast.args) # index_types(base_type)
                                  THEN <<dimension_mismatch(base_type, Len(r.ast.args),
                                                            index_types(base_type))>>
                                  ELSE <<>>)],
                        1)
             EXCEPT !.ret = [tag |-> "Type", type |-> elem_type(base_type)]]
    ELSE [r EXCEPT !.ret = [tag |-> "Err",
                            diag |-> Diag("cannot be indexed", type_mark, 0, <<>>)]]

\* a call-shaped name whose prefix resolved to Single(ent): a type conversion,
\* an indexed name (the node is rewritten) or an error
call_with_single_prefix(sc, r, ent) ==
    LET added(x) == IF x.ret.tag = "Err" THEN [x EXCEPT !.diags = @ \o <<x.ret.diag>>]
                    ELSE x
    IN IF is_type(ent) THEN analyze_assoc_elems(sc, r)
       ELSE IF to_indexed(r.ast)
       THEN IF type_mark_of_sliced_or_indexed(ent) # "None"
            THEN The({added(val)
                      : val \in {analyze_indexed_name(sc, [r EXCEPT !.ast.form = "Indexed"],
                                           type_mark_of_sliced_or_indexed(ent))}})
            ELSE [r EXCEPT !.ast.form = "Indexed",
                           !.diags = @ \o <<Diag("cannot be indexed", ent.des, 0, <<>>)>>]
       ELSE analyze_assoc_elems(
                sc, [r EXCEPT !.diags = @ \o <<Diag("cannot be the prefix of a function call",
                                                    ent.des, 0, <<>>)>>])

analyze_function_call_or_indexed_name(sc, name) ==
    LET resolved(r) ==
            [(IF r.ret.tag = "Single" THEN call_with_single_prefix(sc, r, r.ret.ent)
              ELSE analyze_assoc_elems(sc, r))
                EXCEPT !.ret = NoneB]
    IN The({resolved(val) : val \in {resolve_designator(sc, name)}})

resolve_name(sc, name) ==
    CASE name.form = "Designator" -> resolve_designator(sc, name)
      [] name.form = "Selected" ->
            LET selected(p, visible) ==
                    IF visible.tag = "Err"
                    THEN Res([p.ast EXCEPT !.ref = NoEnt],
                             p.diags \o <<Diag(visible.msg, name.des, 0, <<>>)>>,
                             p.cache, visible, NoneB)
                    ELSE Res([p.ast EXCEPT !.ref = set_reference(visible)], p.diags,
                             p.cache, visible, visible)
                prefixed(p) ==
                    IF p.ret.tag = "Single"
                    THEN selected(p, lookup_selected(p.ret.ent, name.des))
                    ELSE Res([p.ast EXCEPT !.ref = NoEnt], p.diags, p.cache,
                             Err("prefix"), NoneB)
            IN The({prefixed(val) : val \in {resolve_prefix(sc, name)}})
      [] name.form = "Indexed" ->
            LET indexes(r) == analyze_exprs(sc, r, 1) IN
            [The({indexes(val)
                  : val \in {resolve_designator(sc, name)}}) EXCEPT !.ret = NoneB]
      [] name.form = "FunctionCall" -> analyze_function_call_or_indexed_name(sc, name)

\* resolve_selected_name; the error it returns is pushed by its caller
resolve_selected_name(sc, name) ==
    IF name.form = "Designator"
    THEN resolve_designator(sc, name)
    ELSE LET selected(p, visible) ==
                 IF visible.tag = "Err"
                 THEN Res([p.ast EXCEPT !.ref = NoEnt],
                          <<Diag(visible.msg, name.des, 0, <<>>)>>, p.cache, visible, NoneB)
                 ELSE Res([p.ast EXCEPT !.ref = set_reference(visible)], <<>>,
                          p.cache, visible, visible)
             prefixed(p) ==
                 IF p.found.tag = "Err"
                 THEN Res([p.ast EXCEPT !.ref = NoEnt], p.diags, p.cache,
                          Err("prefix"), NoneB)
                 ELSE IF p.ret.tag = "Single"
                 THEN selected(p, lookup_selected(p.ret.ent, name.des))
                 ELSE Res([p.ast EXCEPT !.ref = NoEnt],
                          <<Diag("Invalid prefix for selected name", name.pre, 0, <<>>)>>,
                          p.cache, Err("prefix"), NoneB)
         IN The({prefixed(val) : val \in {resolve_prefix(sc, name)}})

\* overload resolution by the target type ("None" when there is none): the
\* slot it leaves, the diagnostics and the check; reference is the slot
\* set_reference left
resolve_overloaded_with_target_type(overloaded, target_type, reference) ==
    LET matching == {e \in {overloaded[k] : k \in DOMAIN overloaded} :
                        target_type = "None" \/ return_type(e) = target_type}
    IN IF Cardinality(matching) = 1
       THEN [ref |-> CHOOSE e \in matching : TRUE, diags |-> <<>>, ret |-> "Ok"]
       ELSE IF matching = {}
       THEN [ref |-> reference,
             diags |-> <<Diag("Could not resolve", target_type, 0, <<>>)>>,
             ret |-> "NotOk"]
       ELSE [ref |-> reference, diags |-> <<>>, ret |-> "Unknown"]

\* the name resolved to entities: the reference is set, then the type matched
with_target_type(r, entities, target_type) ==
    LET set == [r.ast EXCEPT !.ref = set_reference(entities)] IN
    IF entities.tag = "Single"
    THEN LET is_correct == match_with_target_type(entities.ent, target_type) IN
         Res(set,
             r.diags \o (IF is_correct = "NotOk"
                         THEN <<Diag("type mismatch", entities.ent.des, 0, <<>>)>>
                         ELSE <<>>),
             r.cache, entities, Checked(is_correct))
    ELSE LET overloaded(o) ==
                 Res([set EXCEPT !.ref = o.ref], r.diags \o o.diags, r.cache, entities,
                     Checked(o.ret))
         IN overloaded(resolve_overloaded_with_target_type(entities.map, target_type,
                                                           set.ref))

analyze_name_with_target_type(sc, target_type, name) ==
    CASE name.form = "Designator" ->
            LET resolved(r) ==
                    IF r.found.tag = "Err" THEN [r EXCEPT !.ret = Checked("Unknown")]
                    ELSE with_target_type(r, r.found, target_type)
            IN The({resolved(val) : val \in {resolve_designator(sc, name)}})
      [] name.form = "Selected" ->
            LET selected(cleared, entities) ==
                    IF entities.tag = "Err"
                    THEN [cleared EXCEPT
                              !.diags = @ \o <<Diag(entities.msg, name.des, 0, <<>>)>>,
                              !.found = entities]
                    ELSE with_target_type(cleared, entities, target_type)
                prefixed(p) ==
                    IF p.ret.tag = "Single"
                    THEN selected([p EXCEPT !.ast.ref = NoEnt, !.ret = Checked("Unknown")],
                                  lookup_selected(p.ret.ent, name.des))
                    ELSE [p EXCEPT !.ast.ref = NoEnt, !.ret = Checked("Unknown"),
                                   !.found = Err("prefix")]
            IN The({prefixed(val) : val \in {resolve_prefix(sc, name)}})
      [] name.form = "FunctionCall" ->
            LET overloaded(r, o) == [r EXCEPT !.ast.ref = o.ref, !.diags = @ \o o.diags]
                actuals(r) == analyze_assoc_elems(sc, r)
                resolved(r) ==
                    CASE r.ret.tag = "Single" -> call_with_single_prefix(sc, r, r.ret.ent)
                      [] r.ret.tag = "Overloaded" ->
                            The({actuals(val)
                                 : val \in {overloaded(r, resolve_overloaded_with_target_type(
                                                   r.ret.map, target_type, r.ast.ref))}})
                      [] OTHER -> analyze_assoc_elems(sc, r)
            IN [The({resolved(val) : val \in {resolve_designator(sc, name)}})
                   EXCEPT !.ret = Checked("Unknown")]
      [] name.form = "Indexed" ->
            Res(name, <<>>, sc[Len(sc)].cache, NoAttempt, Checked("Unknown"))

\* analyze_record_aggregate on (des => 0): the choice is looked up among the
\* elements of the record type
analyze_record_aggregate(sc, aggregate) ==
    LET elem == RecordElems(aggregate.des) IN
    IF elem # NoEnt
    THEN Res([aggregate EXCEPT !.ref = elem], <<>>, sc[Len(sc)].cache,
             Single(elem), Checked("Unknown"))
    ELSE Res(aggregate, <<Diag("No declaration within", aggregate.des, 0, <<>>)>>,
             sc[Len(sc)].cache, Err("No declaration within"), Checked("Unknown"))

\* the iteration order of the values of a hash map keyed by signature
HashOrders == {<<1, 2>>, <<2, 1>>}

\* OverloadedName::entities: the values in the iteration order of the map
entities(m, order) ==
    LET keys == SelectSeq(order, LAMBDA k : k \in DOMAIN m) IN
    [n \in 1..Len(keys) |-> m[keys[n]]]

\* NamedEntities::expect_non_overloaded: the entity, or the error with a
\* 'Defined here' note for each member of the overload set
expect_non_overloaded(self, name, pos, message, order) ==
    IF self.tag = "Single"
    THEN [ent |-> self.ent, err |-> <<>>]
    ELSE [ent |-> NoEnt,
          err |-> <<Diag(message, name, pos,
                         [n \in 1..Len(entities(self.map, order)) |->
                             entities(self.map, order)[n].pos])>>]

\* AnyEnt::kind_error
kind_error(ent, pos, expected) ==
    Diag("Expected " \o expected, ent.des, pos, <<ent.pos>>)

\* the type a type entity denotes
TypeEnt_from_any(ent) == IF ent.id = t.id THEN "Integer" ELSE "None"

\* the diagnostics of a construct at position pos of the node
At(pos, pushed) == [n \in 1..Len(pushed) |-> [pushed[n] EXCEPT !.pos = pos]]

\* resolve_type_mark on the type mark of a qualified expression: the type,
\* or the error it returns
resolve_type_mark(sc, order, qexpr) ==
    LET typed(p, ent) ==
            [p EXCEPT !.diags = IF is_type(ent) THEN <<>>
                                ELSE <<kind_error(ent, 1, "type")>>,
                      !.ret = TypeEnt_from_any(ent)]
        non_overloaded(p, e) ==
            IF e.err # <<>> THEN [p EXCEPT !.diags = e.err, !.ret = "None"]
            ELSE typed(p, e.ent)
        selected(p) ==
            IF p.found.tag = "Err" THEN [p EXCEPT !.diags = At(1, @), !.ret = "None"]
            ELSE non_overloaded(p, expect_non_overloaded(
                                       p.found, qexpr.pre, 1,
                                       "Expected type, got overloaded name", order))
    IN The({selected(val) : val \in {resolve_prefix(sc, qexpr)}})

analyze_qualified_expression(sc, order, qexpr) ==
    LET expr(tm) == [tm.ast EXCEPT !.form = "Designator"]
        within(tm) == [sc EXCEPT ![Len(sc)].cache = tm.cache]
        qualified(r) == [r EXCEPT !.ast.form = "Qualified", !.diags = At(2, @)]
        resolved(tm) ==
            IF tm.diags = <<>>
            THEN [qualified(analyze_name_with_target_type(within(tm), tm.ret, expr(tm)))
                     EXCEPT !.ret = [tag |-> "Type", type |-> tm.ret]]
            ELSE [qualified(resolve_name(within(tm), expr(tm)))
                     EXCEPT !.diags = @ \o tm.diags, !.ret = NoneB]
    IN The({resolved(val) : val \in {resolve_type_mark(sc, order, qexpr)}})

\* analyze_1d_array_assoc_elem.  On the named element (des => 0) the choice
\* is an expression of the index type and the literal is of the element
\* type.  Any other node is the expression of a positional element, which
\* can be an array: it is analysed against the element type into a bag of
\* its own and, unless that check is Ok, against the array type into a
\* second bag; one of the bags is appended to the diagnostics.
RECURSIVE analyze_expression_with_target_type(_, _, _, _)
analyze_1d_array_assoc_elem(sc, order, array_type, index_type, element_type, assoc) ==
    IF assoc.form = "Aggregate"
    THEN [analyze_name_with_target_type(sc, index_type,
                                        [assoc EXCEPT !.form = "Designator"])
             EXCEPT !.ast.form = "Aggregate",
                    !.ret = Checked(combine(combine("Ok", @.check), "Ok"))]
    ELSE The({IF elem.ret.check = "Ok"
              THEN [elem EXCEPT !.ret = Checked(combine("Ok", elem.ret.check))]
              ELSE The({IF array.ret.check = "Ok"
                        THEN [array EXCEPT !.ret = Checked(combine("Ok", array.ret.check))]
                        ELSE [array EXCEPT
                                 !.diags = elem.diags,
                                 !.ret = Checked(combine("Ok", elem.ret.check))]
                        : array \in {analyze_expression_with_target_type(
                                         [sc EXCEPT ![Len(sc)].cache = elem.cache],
                                         order, array_type, elem.ast)}})
              : elem \in {analyze_expression_with_target_type(sc, order, element_type,
                                                              assoc)}})

analyze_expression_with_target_type(sc, order, target_type, expr) ==
    IF expr.form = "Qualified"
    THEN LET checked_against(q) ==
                IF q.ret.tag = "Type"
                THEN [q EXCEPT !.diags = @ \o (IF q.ret.type = target_type THEN <<>>
                                               ELSE <<Diag("type mismatch", expr.pre, 0,
                                                           <<>>)>>),
                               !.ret = Checked(from_bool(q.ret.type = target_type))]
                ELSE [q EXCEPT !.ret = Checked("Unknown")]
         IN The({checked_against(val)
                 : val \in {analyze_qualified_expression(sc, order, expr)}})
    ELSE IF expr.form = "Aggregate"
    THEN CASE target_type = "Array" ->
                [analyze_1d_array_assoc_elem(sc, order, target_type, "Integer",
                                             elem_type(target_type), expr)
                    EXCEPT !.ret = Checked(combine("Ok", @.check))]
           [] target_type = "Record" -> analyze_record_aggregate(sc, expr)
           [] OTHER ->
                Res(expr, <<Diag("Composite does not match", target_type, 0, <<>>)>>,
                    sc[Len(sc)].cache, NoAttempt, Checked("Unknown"))
    ELSE analyze_name_with_target_type(sc, target_type, expr)

\* analyze_expression: a name is resolved, the choice of an aggregate is not
analyze_expression(sc, order, expr) ==
    CASE expr.form = "Aggregate" -> Res(expr, <<>>, sc[Len(sc)].cache, NoAttempt, NoneB)
      [] expr.form = "Qualified" ->
            [analyze_qualified_expression(sc, order, expr) EXCEPT !.ret = NoneB]
      [] OTHER -> resolve_name(sc, expr)

\* OverloadedName::sorted_entities: the declaration positions, ascending
RECURSIVE sorted_entities(_)
sorted_entities(m) ==
    IF DOMAIN m = {} THEN <<>>
    ELSE The({<<m[k].pos>> \o sorted_entities([j \in DOMAIN m \ {k} |-> m[j]])
              : k \in {CHOOSE k \in DOMAIN m : \A j \in DOMAIN m : m[k].pos <= m[j].pos}})

is_procedure(ent) == ent.id = pr.id

\* analyze_procedure_call on the call des(args)
analyze_procedure_call(sc, fcall) ==
    LET invalid(r, notes) ==
            [r EXCEPT !.diags = @ \o <<Diag("Invalid procedure call", fcall.des, 0,
                                            notes)>>]
        overloaded(r, o) == [r EXCEPT !.ast.ref = o.ref, !.diags = @ \o o.diags]
        resolved(r) ==
            CASE r.ret.tag = "Single" ->
                    analyze_assoc_elems(sc, invalid(r, <<r.ret.ent.pos>>))
              [] r.ret.tag = "Overloaded" ->
                    IF \E k \in DOMAIN r.ret.map : is_procedure(r.ret.map[k])
                    THEN analyze_assoc_elems(
                             sc, overloaded(r, resolve_overloaded_with_target_type(
                                                   r.ret.map, "None", r.ast.ref)))
                    ELSE analyze_assoc_elems(sc, invalid(r, sorted_entities(r.ret.map)))
              [] OTHER -> analyze_assoc_elems(sc, r)
    IN [The({resolved(val) : val \in {resolve_designator(sc, fcall)}})
           EXCEPT !.ret = NoneB]

\* an analysis of the node under analysis in the innermost scope
Analyzed(op, arg, r) ==
    /\ ast' = r.ast
    /\ diags' = r.diags
    /\ scopes' = [scopes EXCEPT ![Top].cache = r.cache]
    /\ last' = Last(op, Top, arg, NoEnt, r.found, r.ret)
    /\ UNCHANGED <<body_pos, check, checked>>

run_analyze_expression ==
    /\ ast # NoAst
    /\ \E order \in HashOrders :
          \E r \in {analyze_expression(scopes, order, ast)} :
              Analyzed("analyze_expression", "-", r)

run_analyze_expression_with_target_type(target_type) ==
    /\ ast # NoAst
    /\ \E order \in HashOrders :
          \E r \in {analyze_expression_with_target_type(scopes, order, target_type, ast)} :
              Analyzed("analyze_expression_with_target_type", target_type, r)

run_resolve_selected_name ==
    /\ ast # NoAst
    /\ ast.form \in {"Designator", "Selected"}
    /\ \E r \in {resolve_selected_name(scopes, ast)} :
            Analyzed("resolve_selected_name", "-", r)

\* the analysis of one name or aggregate in a declarative region
InitNames ==
    /\ scopes = <<Scope_new(Region_default)>>
    /\ diags = <<>>
    /\ last = Last("new", 1, "-", NoEnt, NoneB, NoneB)
    /\ body_pos = {}
    /\ ast \in Asts
    /\ check = "Ok"
    /\ checked = <<>>

NextNames ==
    \/ \E ent \in NameEnts : add(ent)
    \/ \E d \in {"a", "b"}, ent \in RenamedEnts : make_potentially_visible_with_name(d, ent)
    \/ run_analyze_expression
    \/ \E target_type \in TargetTypes : run_analyze_expression_with_target_type(target_type)
    \/ run_resolve_selected_name

SpecNames == InitNames /\ [][NextNames]_vars

(***************************************************************************)
(* Call-shaped names: des(args), where an actual or index expression is    *)
(* the literal "-" or the simple name "a".                                 *)
(***************************************************************************)
Call(form, des, positional, args) ==
    [Name(form, "-", des, positional) EXCEPT
        !.args = args, !.argrefs = [n \in DOMAIN args |-> NoEnt]]

CallArgs == {<<"-">>, <<"a">>, <<"a", "-">>}

CallAsts ==
    {Call("FunctionCall", d, p, args) : d \in Designators, p \in BOOLEAN, args \in CallArgs}
        \cup {Call("Indexed", d, TRUE, args) : d \in Designators, args \in CallArgs}

TypeMarks == {"Integer", "Array", "Array2", "Access", "Record"}

run_analyze_procedure_call ==
    /\ ast # NoAst
    /\ ast.form = "FunctionCall"
    /\ \E r \in {analyze_procedure_call(scopes, ast)} :
            Analyzed("analyze_procedure_call", "-", r)

run_analyze_indexed_name(type_mark) ==
    /\ ast # NoAst
    /\ ast.form = "Indexed"
    /\ \E r \in {analyze_indexed_name(
                      scopes, Res(ast, <<>>, scopes[Top].cache, NoAttempt, NoneB),
                      type_mark)} :
            Analyzed("analyze_indexed_name", type_mark, r)

InitCalls ==
    /\ scopes = <<Scope_new(Region_default)>>
    /\ diags = <<>>
    /\ last = Last("new", 1, "-", NoEnt, NoneB, NoneB)
    /\ body_pos = {}
    /\ ast \in CallAsts
    /\ check = "Ok"
    /\ checked = <<>>

NextCalls ==
    \/ \E ent \in CallEnts : add(ent)
    \/ run_analyze_expression
    \/ \E target_type \in TargetTypes : run_analyze_expression_with_target_type(target_type)
    \/ run_analyze_procedure_call
    \/ \E type_mark \in TypeMarks : run_analyze_indexed_name(type_mark)

SpecCalls == InitCalls /\ [][NextCalls]_vars

(***************************************************************************)
(* Selection from a design unit or another entity whose declarative region *)
(* is the region of the innermost scope; the scopes around it are the      *)
(* scopes the unit is declared in.                                         *)
(***************************************************************************)
PrefixKinds == PackageDesigns \cup {"Entity", "PackageBody", "Subprogram", "Type", "Label"}

run_lookup_selected(kind, suffix) ==
    /\ scopes # <<>>
    /\ UNCHANGED <<scopes, body_pos, ast, check, checked>>
    /\ diags' = <<>>
    /\ last' = Last("lookup_selected", Top, suffix, Design(kind, scopes[Top].region),
                    NoneB,
                    lookup_selected(Design(kind, scopes[Top].region), suffix))

NextSelected ==
    \/ \E ent \in ScopeEnts : add(ent)
    \/ \E ent \in ScopeEnts : make_potentially_visible(ent)
    \/ nested(MaxNest)
    \/ drop
    \/ \E kind \in PrefixKinds, suffix \in {"a", "b"} : run_lookup_selected(kind, suffix)

SpecSelected == Init /\ [][NextSelected]_vars

(***************************************************************************)
(* Elements of an aggregate of the one-dimensional array type: the named   *)
(* element (des => 0), or a positional element whose expression is the     *)
(* name or qualified expression under analysis.                            *)
(***************************************************************************)
run_analyze_1d_array_assoc_elem ==
    /\ ast # NoAst
    /\ \E order \in HashOrders :
          \E r \in {analyze_1d_array_assoc_elem(scopes, order, "Array", "Integer",
                                               elem_type("Array"), ast)} :
              Analyzed("analyze_1d_array_assoc_elem", "Array", r)

NextElems ==
    \/ \E ent \in NameEnts : add(ent)
    \/ run_analyze_1d_array_assoc_elem

SpecElems == InitNames /\ [][NextElems]_vars

AnalysisOps ==
    {"analyze_expression", "analyze_expression_with_target_type", "resolve_selected_name"}

\* this step runs again, with the same argument, the analysis the step
\* before it ran: its node is the one that run left, its scope is unchanged
Reanalysis ==
    /\ last.op \in AnalysisOps
    /\ last'.op = last.op
    /\ last'.d = last.d
    /\ UNCHANGED scopes[Top].region

\* C17: a second run of an analysis on the node left by the first run, in
\* the same scope state, pushes the same diagnostics as the first run and
\* leaves the same reference slots, also when the first run rewrote a
\* call-shaped name to an indexed name.
C17_ReanalysisIdentical ==
    [][Reanalysis => /\ diags' = diags
                     /\ ast'.ref = ast.ref
                     /\ ast'.pref = ast.pref]_vars

\* the last step was a resolution attempt on the node
Attempted == last.op \in AnalysisOps /\ last.pre.tag # "NoAttempt"

\* e is what an unambiguous resolution to found yields: the single entity,
\* the only member of an overload set, or the only member of the set whose
\* return type is the target type
Unambiguous(found, e) ==
    \/ found.tag = "Single" /\ e = found.ent
    \/ /\ found.tag = "Overloaded"
       /\ \E k \in DOMAIN found.map : found.map[k] = e
       /\ \/ Cardinality(DOMAIN found.map) = 1
          \/ /\ last.op = "analyze_expression_with_target_type"
             /\ \A k \in DOMAIN found.map :
                    return_type(found.map[k]) = last.d <=> found.map[k] = e

\* C18: when a resolution attempt on a node returns, its reference slot
\* holds an entity only if the resolution was unambiguous, and is empty
\* after a failed lookup or an ambiguous result, whatever an earlier pass
\* had left in it.
C18_SlotProtocol ==
    Attempted =>
        IF ast.ref # NoEnt THEN Unambiguous(last.pre, ast.ref) ELSE TRUE

\* the last step resolved the node and set its slot
Resolved ==
    /\ Attempted
    /\ last.pre.tag \in {"Single", "Overloaded"}
    /\ ast.ref # NoEnt

\* C19: when the resolution of a node succeeds and sets its slot to an
\* entity, the designator of that entity is the designator written at the
\* node, also for an entity reached through a use clause or through
\* make_potentially_visible_with_name.
C19_ResolvedDesignator ==
    Resolved => ast.ref.des = ast.des

Next ==
    \/ \E ent \in ScopeEnts : add(ent)
    \/ \E ent \in {t} : add_implicit_declaration_aliases(ent)
    \/ \E ent \in ScopeEnts : make_potentially_visible(ent)
    \/ \E d \in {"a", "b"}, ent \in ScopeEnts : make_potentially_visible_with_name(d, ent)
    \/ \E region \in Packages : make_all_potentially_visible(region)
    \/ \E region \in Contexts : add_context_visibility(region)
    \/ nested(MaxNest)
    \/ drop
    \/ \E d \in {"a", "b"} : lookup(d)

Spec == Init /\ [][Next]_vars

\* the lookup walk over a chain of up to MaxDepth regions
NextWalk ==
    \/ \E ent \in WalkEnts : add(ent)
    \/ \E ent \in WalkEnts : make_potentially_visible(ent)
    \/ nested(MaxDepth)
    \/ drop
    \/ lookup("a")

SpecWalk == Init /\ [][NextWalk]_vars

\* lookups of "b" where up to MaxUse entities are made visible as "b"
NextUse ==
    \/ \E ent \in ScopeEnts : add(ent)
    \/ \E ent \in ScopeEnts : make_potentially_visible_with_name_within(MaxUse, "b", ent)
    \/ nested(MaxNest)
    \/ drop
    \/ lookup("b")

SpecUse == Init /\ [][NextUse]_vars

\* the declarations of one region: package declaration, then package body
NextRegion ==
    \/ \E ent \in RegionEnts : add(ent)
    \/ \E ent \in TypeEnts : add_implicit_declaration_aliases(ent)
    \/ in_package_declaration
    \/ extend(MaxNest)
    \/ drop

SpecRegion == Init /\ [][NextRegion]_vars

\* a package declaration, its body, and what is declared after: the adds
\* the deferred constant rules decide, and the checks at the end of a region
NextClose ==
    \/ \E ent \in CloseEnts : add(ent)
    \/ \E ent \in {pb} : make_potentially_visible(ent)
    \/ \E ent \in ProtectedTypes : set_body_pos(ent)
    \/ in_package_declaration
    \/ extend(MaxDepth)
    \/ drop
    \/ close

SpecClose == Init /\ [][NextClose]_vars

\* overload sets as they are built, merged and looked up: declarations that
\* replace one another, and overloads made visible from elsewhere
NextSets ==
    \/ \E ent \in SetEnts : add(ent)
    \/ \E ent \in UsedEnts : make_potentially_visible(ent)
    \/ nested(MaxDepth)
    \/ drop
    \/ lookup("a")

SpecSets == Init /\ [][NextSets]_vars

(***************************************************************************)
(* Properties of Scope::lookup                                             *)
(***************************************************************************)
Binding(i, d) == lookup_immediate(scopes, i, d)

\* the entities region i declares under d
DeclaredAt(i, d) ==
    LET b == Binding(i, d) IN
    CASE b.tag = "Single" -> {b.ent}
      [] b.tag = "Overloaded" -> {b.map[k] : k \in DOMAIN b.map}
      [] OTHER -> {}

\* the nearest scope at or below i whose region binds d to Single, 0 if none
NearestSingle(i, d) ==
    LET S == {j \in 1..i : Binding(j, d).tag = "Single"} IN
    IF S = {} THEN 0 ELSE Max(S)

\* the regions whose overloads the enclosing walk from scope i collects
Contributing(i, d) ==
    {j \in (NearestSingle(i, d) + 1)..i : Binding(j, d).tag = "Overloaded"}

Holders(i, d, k) == {j \in Contributing(i, d) : k \in DOMAIN Binding(j, d).map}

EntsOf(b) == {b.map[k] : k \in DOMAIN b.map}

Looked == last.op = "lookup"

\* C1: Scope.lookup(d) returns, in every scope and for every designator,
\* what an uncached lookup on the current regions returns, and a failed
\* lookup stores nothing in the cache.
C1_CacheTransparent ==
    /\ \A i \in 1..Len(scopes), d \in Designators :
          Scope_lookup(scopes, i, d).res = lookup_uncached(scopes, i, d)
    /\ (Looked /\ last.res.tag = "Err") => scopes[Top].cache[last.d] = NoneB

\* C2: when the region of the scope looked up in binds d to Single(e),
\* lookup(d) returns Single(e), whatever the enclosing regions declare and
\* whatever is potentially visible under d.
C2_SingleShadows ==
    (Looked /\ Binding(Top, last.d).tag = "Single")
        => last.res = Binding(Top, last.d)

C2_Witness ==
    /\ Looked
    /\ Top >= 2
    /\ Binding(Top, last.d).tag = "Single"
    /\ last.res = Binding(Top, last.d)
    /\ \E j \in 1..(Top - 1) : Binding(j, last.d).tag = "Overloaded"
    /\ \E e \in Candidates(scopes, Top, last.d) : is_overloaded(e)

\* C3: every signature key of a returned overload set maps to the entity of
\* the innermost contributing region that holds the key; an entity that no
\* contributing region declares is potentially visible and sits under a key
\* that no contributing region holds.
C3_LeftBiased ==
    (Looked /\ last.res.tag = "Overloaded") =>
        \A k \in DOMAIN last.res.map :
            LET H == Holders(Top, last.d, k)
                e == last.res.map[k]
            IN /\ H # {} => e = Binding(Max(H), last.d).map[k]
               /\ H = {} => e \in Candidates(scopes, Top, last.d)
               /\ (e \notin UNION {DeclaredAt(j, last.d) : j \in Contributing(Top, last.d)})
                     => H = {}

C3_Witness ==
    /\ Looked
    /\ last.res.tag = "Overloaded"
    /\ \E k \in DOMAIN last.res.map :
          \E i, j \in Holders(Top, last.d, k) :
              /\ i < j
              /\ Binding(i, last.d).map[k] # Binding(j, last.d).map[k]
              /\ last.res.map[k] = Binding(j, last.d).map[k]
    /\ \E e \in Candidates(scopes, Top, last.d) :
          /\ is_overloaded(e)
          /\ Holders(Top, last.d, e.key) # {}
          /\ e \notin EntsOf(last.res)

\* the case of C4: the region looked up in binds d to an overload set and
\* scope A is the nearest ancestor whose region binds d to Single
C4_Case(A) ==
    /\ Looked
    /\ Binding(Top, last.d).tag = "Overloaded"
    /\ A = NearestSingle(Top, last.d)
    /\ A > 0

DeclaredNearer(A, d) == UNION {DeclaredAt(j, d) : j \in (A + 1)..Top}
DeclaredFrom(A, d) == UNION {DeclaredAt(j, d) : j \in 1..A}

\* C4 as stated: the result is an overload set that holds every overload
\* declared nearer than A and no entity declared in the region of A or of a
\* scope enclosing A (an entity that is also declared nearer than A is not
\* counted against the claim).
C4_NothingFromBeyondSingle ==
    \A A \in 1..MaxDepth + 1 :
        C4_Case(A) =>
            /\ last.res.tag = "Overloaded"
            /\ \A j \in Contributing(Top, last.d) :
                  \A k \in DOMAIN Binding(j, last.d).map : k \in DOMAIN last.res.map
            /\ \A e \in EntsOf(last.res) :
                  e \in DeclaredFrom(A, last.d) => e \in DeclaredNearer(A, last.d)

\* C4 (amended): the result is an overload set that holds every overload
\* declared nearer than A, each key mapping to its innermost holder, and
\* beside them only entities that are potentially visible under d: the
\* enclosing walk takes nothing from the region of A or from beyond it.
C4_WalkStopsAtSingle ==
    \A A \in 1..MaxDepth + 1 :
        C4_Case(A) =>
            /\ last.res.tag = "Overloaded"
            /\ \A j \in Contributing(Top, last.d) :
                  \A k \in DOMAIN Binding(j, last.d).map :
                      /\ k \in DOMAIN last.res.map
                      /\ last.res.map[k] \in DeclaredNearer(A, last.d)
            /\ \A e \in EntsOf(last.res) :
                  \/ e \in DeclaredNearer(A, last.d)
                  \/ e \in Candidates(scopes, Top, last.d)

C4_Witness ==
    \E A \in 2..MaxDepth :
        /\ C4_Case(A)
        /\ last.res = Binding(Top, last.d)
        /\ \E j \in 1..(A - 1) :
              /\ Binding(j, last.d).tag = "Overloaded"
              /\ \E k \in DOMAIN Binding(j, last.d).map : k \notin DOMAIN last.res.map

(***************************************************************************)
(* Properties of Region::add and OverloadedName::insert                    *)
(***************************************************************************)
Added == last.op = "add"
Kind == scopes[Top].region.kind
\* the binding of the added entity's designator before and after the add
Prev == last.pre[last.ent.des]
Post == scopes[Top].region.entities[last.ent.des]

\* the adds the deferred constant rules decide
DeferredConstantCase ==
    \/ is_deferred_constant(last.ent) /\ Kind # "PackageDeclaration"
    \/ /\ Prev.tag = "Single"
       /\ is_deferred_constant(Prev.ent)
       /\ is_non_deferred_constant(last.ent)

C5_Case ==
    /\ Added
    /\ ~DeferredConstantCase
    /\ \/ Prev.tag = "Single" /\ Prev.ent.id # last.ent.id
       \/ Prev.tag = "Overloaded" /\ ~is_overloaded(last.ent)

\* C5: adding N where the designator is bound to Single(O) of another id, or
\* a non-overloadable N where it is bound to an overload set, pushes exactly
\* one 'Duplicate declaration' error at N's position with one related note
\* at the earlier declaration, and leaves the binding as it was.
C5_DuplicateDeclaration ==
    C5_Case =>
        /\ Len(diags) = 1
        /\ diags[1].msg = "Duplicate declaration"
        /\ diags[1].name = last.ent.des
        /\ diags[1].pos = last.ent.pos
        /\ Len(diags[1].related) = 1
        /\ diags[1].related[1] \in {e.pos : e \in IF Prev.tag = "Single"
                                                    THEN {Prev.ent} ELSE EntsOf(Prev)}
        /\ Post = Prev
        /\ scopes[Top].region.entities = last.pre

C5_Witness ==
    /\ C5_Case
    /\ Prev.tag = "Overloaded"
    /\ Len(diags) = 1
    /\ Post = Prev

\* adding overloadable N where O already sits under N's signature key
SameKeyCase ==
    /\ Added
    /\ is_overloaded(last.ent)
    /\ Prev.tag = "Overloaded"
    /\ last.ent.key \in DOMAIN Prev.map

Old == Prev.map[last.ent.key]

ReplaceRule ==
    \/ is_implicit(Old) /\ is_explicit(last.ent)
    \/ is_subprogram_decl(Old) /\ is_subprogram(last.ent)

SilentRule ==
    \/ ReplaceRule
    \/ is_implicit(Old) /\ is_implicit(last.ent) /\ as_actual(Old) = as_actual(last.ent)
    \/ is_explicit(Old) /\ is_implicit(last.ent)

\* C6: when no silent rule applies, the add pushes exactly one 'Duplicate
\* declaration of d with signature' error at N's position with one related
\* note at O's position, and O stays under the key.
C6_DuplicateSignature ==
    (SameKeyCase /\ ~SilentRule) =>
        /\ diags = <<Diag("Duplicate declaration with signature", last.ent.des,
                          last.ent.pos, <<Old.pos>>)>>
        /\ Post = Prev

C6_Witness ==
    /\ SameKeyCase
    /\ ~SilentRule
    /\ is_subprogram(Old)
    /\ is_subprogram_decl(last.ent)
    /\ Len(diags) = 1

\* C7: an explicit N replaces an implicit O, and a subprogram body N replaces
\* a subprogram declaration O, without diagnostic and without touching another
\* key of the overload set.
C7_SilentReplace ==
    (SameKeyCase /\ ReplaceRule) =>
        /\ diags = <<>>
        /\ Post = Overloaded([Prev.map EXCEPT ![last.ent.key] = last.ent])

C7_Witness ==
    /\ SameKeyCase
    /\ is_subprogram_decl(Old)
    /\ is_explicit(Old)
    /\ is_subprogram(last.ent)
    /\ Old # last.ent
    /\ Cardinality(DOMAIN Prev.map) = 2
    /\ Post.map[last.ent.key] = last.ent

\* C8 as stated: an implicit N under a key held by an explicit O is ignored
\* without diagnostic, for every kind of O and N.
C8_ImplicitIgnored ==
    (SameKeyCase /\ is_explicit(Old) /\ is_implicit(last.ent)) =>
        /\ diags = <<>>
        /\ Post = Prev

\* C8 (amended): an implicit N under a key held by an explicit O is ignored
\* without diagnostic, unless O is a subprogram declaration and N a subprogram
\* body: then N replaces O, also without diagnostic.
C8_ImplicitIgnoredUnlessBody ==
    (SameKeyCase /\ is_explicit(Old) /\ is_implicit(last.ent)) =>
        /\ diags = <<>>
        /\ IF is_subprogram_decl(Old) /\ is_subprogram(last.ent)
           THEN Post = Overloaded([Prev.map EXCEPT ![last.ent.key] = last.ent])
           ELSE Post = Prev

C8_Witness ==
    /\ SameKeyCase
    /\ is_explicit(Old)
    /\ is_implicit(last.ent)
    /\ ~is_subprogram(last.ent)
    /\ diags = <<>>
    /\ Post = Prev

\* the case of the type alias: every implicit declaration of the type is
\* already published by an implicit entity of the same actual entity
Republished ==
    /\ last.op = "add_implicit_declaration_aliases"
    /\ implicit_declarations(last.ent) # <<>>
    /\ \A n \in 1..Len(implicit_declarations(last.ent)) :
          LET implicit == implicit_declarations(last.ent)[n]
              b == last.pre[implicit.des]
          IN /\ b.tag = "Overloaded"
             /\ implicit.key \in DOMAIN b.map
             /\ is_implicit(b.map[implicit.key])
             /\ as_actual(b.map[implicit.key]) = as_actual(implicit)

\* C9: an implicit N under a key held by an implicit O of the same actual
\* entity is ignored without diagnostic; publishing the implicit declarations
\* of a type once more (the alias of the type) pushes no diagnostic.
C9_SameActualIgnored ==
    /\ (SameKeyCase /\ is_implicit(Old) /\ is_implicit(last.ent)
           /\ as_actual(Old) = as_actual(last.ent))
          => (diags = <<>> /\ Post = Prev)
    /\ Republished => (diags = <<>> /\ scopes[Top].region.entities = last.pre)

C9_Witness ==
    /\ Republished
    /\ last.ent = at
    /\ \E k \in DOMAIN last.pre["a"].map :
          last.pre["a"].map[k] = ImplicitAlias(t, ts)
    /\ diags = <<>>

\* C10: a deferred constant added to a region that is no package declaration
\* pushes exactly one diagnostic and leaves the entity map as it was; in a
\* package declaration with the designator unoccupied it becomes Single.
C10_DeferredConstant ==
    (Added /\ is_deferred_constant(last.ent)) =>
        /\ Kind # "PackageDeclaration" =>
              /\ Len(diags) = 1
              /\ diags[1].pos = last.ent.pos
              /\ scopes[Top].region.entities = last.pre
        /\ (Kind = "PackageDeclaration" /\ Prev.tag = "None") =>
              /\ diags = <<>>
              /\ Post = Single(last.ent)

C10_Witness ==
    /\ Added
    /\ is_deferred_constant(last.ent)
    /\ Kind = "PackageBody"
    /\ Len(diags) = 1
    /\ \E d \in Designators : last.pre[d].tag # "None"

(***************************************************************************)
(* Properties of the deferred constant rules and of Region::close          *)
(***************************************************************************)
\* the add of a full constant where the designator is bound to a deferred one
FullConstantCase ==
    /\ Added
    /\ is_non_deferred_constant(last.ent)
    /\ Prev.tag = "Single"
    /\ is_deferred_constant(Prev.ent)
    /\ Prev.ent.id # last.ent.id

\* the diagnostics close pushes now for the innermost region
Closing == Region_close(scopes[Top].region, body_pos)

\* C11: in a region extended from a package declaration (kind package body)
\* the full constant is added without diagnostic, lookup_immediate(d) is then
\* Single(full constant) and close reports nothing for d; in a region of
\* another kind the add pushes 'Full declaration of deferred constant is only
\* allowed in a package body' and d stays bound to the deferred constant.
C11_FullConstant ==
    FullConstantCase =>
        IF Kind = "PackageBody"
        THEN /\ Top >= 2
             /\ scopes[Top - 1].region.kind = "PackageDeclaration"
             /\ diags = <<>>
             /\ lookup_immediate(scopes, Top, last.d) = Single(last.ent)
             /\ \A n \in 1..Len(Closing) : Closing[n].name # last.d
        ELSE /\ diags = <<Diag("Full declaration of deferred constant is only allowed in a package body",
                               last.ent.des, last.ent.pos, <<>>)>>
             /\ lookup_immediate(scopes, Top, last.d) = Prev

C11_Witness ==
    /\ FullConstantCase
    /\ Kind = "PackageBody"
    /\ scopes[Top - 1].region.entities[last.d] = Prev
    /\ Post = Single(last.ent)
    /\ Closing # <<>>

\* the same add in a region of kind other is reachable as well
C11_WitnessOther ==
    /\ FullConstantCase
    /\ Kind = "Other"
    /\ Len(diags) = 1

Closed == last.op = "close"

\* the designators the closed region binds to a deferred constant, and to a
\* protected type whose body position is unset
DeferredBound ==
    {d \in Designators :
        LET b == scopes[Top].region.entities[d] IN
        b.tag = "Single" /\ is_deferred_constant(b.ent)}

ProtectedBound ==
    {d \in Designators :
        LET b == scopes[Top].region.entities[d] IN
        b.tag = "Single" /\ is_protected_type(b.ent)}

WithoutBody ==
    {d \in ProtectedBound : scopes[Top].region.entities[d].ent.id \notin body_pos}

Reported(msg) ==
    {d \in Designators :
        \E n \in 1..Len(diags) :
            /\ diags[n].msg = msg
            /\ diags[n].name = d
            /\ diags[n].pos = scopes[Top].region.entities[d].ent.pos}

\* close leaves the region as it is and pushes one diagnostic per deferred
\* constant of a package declaration or body and one per protected type
\* without body, and nothing else
ClosePushesExactly ==
    LET lacks == "Deferred constant lacks corresponding full constant declaration in package body"
        missing == "Missing body for protected type"
        expected == IF Kind = "Other" THEN {} ELSE DeferredBound
    IN /\ scopes[Top].region = last.pre
       /\ Reported(lacks) = expected
       /\ Reported(missing) = WithoutBody
       /\ Len(diags) = Cardinality(expected) + Cardinality(WithoutBody)
       /\ \A n \in 1..Len(diags) : diags[n].msg \in {lacks, missing}

\* C12 as stated: close does not modify the region and pushes exactly those
\* diagnostics; a close that pushes nothing means that the region binds no
\* deferred constant and that every protected type has its body position set.
C12_CloseReportsAll ==
    Closed =>
        /\ ClosePushesExactly
        /\ diags = <<>> => (DeferredBound = {} /\ WithoutBody = {})

\* C12 (amended): close does not modify the region and pushes exactly those
\* diagnostics; a close that pushes nothing means that every protected type
\* has its body position set and, in a region of kind package declaration or
\* package body, that no deferred constant is bound.
C12_CloseReportsByKind ==
    Closed =>
        /\ ClosePushesExactly
        /\ diags = <<>> =>
              /\ WithoutBody = {}
              /\ Kind # "Other" => DeferredBound = {}

C12_Witness ==
    /\ Closed
    /\ Kind = "PackageDeclaration"
    /\ DeferredBound # {}
    /\ WithoutBody # {}
    /\ ProtectedBound # WithoutBody
    /\ Len(diags) = 2

(***************************************************************************)
(* Invariants of overload sets and regions                                 *)
(***************************************************************************)
\* an overload set is non-empty and stores every entity under its own key
WellKeyed(b) ==
    b.tag = "Overloaded" =>
        /\ DOMAIN b.map # {}
        /\ \A k \in DOMAIN b.map : is_overloaded(b.map[k]) /\ b.map[k].key = k

\* C13: every overload set stored in a region, stored in a cache or returned
\* by lookup is non-empty and holds each entity under the key of the entity's
\* own signature, hence one entity per key; an operation on a region leaves a
\* designator that is bound to an overload set bound to an overload set with
\* at least the keys it had.
C13_OverloadSets ==
    /\ [](\A i \in 1..Len(scopes), d \in Designators :
              /\ WellKeyed(Binding(i, d))
              /\ WellKeyed(scopes[i].cache[d])
              /\ WellKeyed(Scope_lookup(scopes, i, d).res)
              /\ WellKeyed(last.res))
    /\ [][\A d \in Designators :
              (Len(scopes') = Len(scopes) /\ Binding(Top, d).tag = "Overloaded")
                  => /\ scopes'[Top].region.entities[d].tag = "Overloaded"
                     /\ DOMAIN Binding(Top, d).map
                           \subseteq DOMAIN scopes'[Top].region.entities[d].map]_vars

C13_Witness ==
    /\ Looked
    /\ last.res.tag = "Overloaded"
    /\ Cardinality(DOMAIN last.res.map) = 2
    /\ \E e \in EntsOf(last.res) : e \notin DeclaredAt(Top, last.d)
    /\ \E e \in EntsOf(last.res) : e = pb
    /\ \E i \in 1..Top : Binding(i, "a").tag = "Overloaded" /\ pd \in EntsOf(Binding(i, "a"))

DeclaredNext(d) ==
    LET b == scopes'[Len(scopes')].region.entities[d] IN
    CASE b.tag = "Single" -> {b.ent}
      [] b.tag = "Overloaded" -> {b.map[k] : k \in DOMAIN b.map}
      [] OTHER -> {}

\* the step is an operation on the innermost region, not a change of scope
SameRegion == Len(scopes') = Len(scopes)

AddedNext == SameRegion /\ last'.op = "add"

\* an entity is bound when the binding holds it or its updated definition
\* (the entity of the same id)
BoundNext(e, d) == \E x \in DeclaredNext(d) : x.id = e.id

\* the add of n puts n in the place of the declared entity e
Supersedes(n, e) ==
    \/ /\ is_deferred_constant(e)
       /\ is_non_deferred_constant(n)
       /\ scopes[Top].region.kind = "PackageBody"
    \/ /\ is_overloaded(e) /\ is_overloaded(n)
       /\ n.key = e.key
       /\ \/ is_implicit(e) /\ is_explicit(n)
          \/ is_subprogram_decl(e) /\ is_subprogram(n)

\* the add of n is ignored: its key is held by an implicit entity of the same
\* actual, or n is implicit and the key is held by an explicit entity
Ignored(n) ==
    /\ is_overloaded(n)
    /\ \E e \in DeclaredAt(Top, n.des) :
          /\ is_overloaded(e)
          /\ e.key = n.key
          /\ \/ is_implicit(e) /\ is_implicit(n) /\ as_actual(e) = as_actual(n)
             \/ is_explicit(e) /\ is_implicit(n)

\* C15 as stated: an entity added without diagnostic is bound under its
\* designator (Single(E) or a member of the overload set) after the add and
\* after every later operation on the region.
C15_DeclaredStaysBound ==
    [][/\ (AddedNext /\ diags' = <<>>) => last'.ent \in DeclaredNext(last'.ent.des)
       /\ SameRegion =>
             \A d \in Designators : \A e \in DeclaredAt(Top, d) : BoundNext(e, d)]_vars

\* C15 (amended): an entity added without diagnostic is bound under its
\* designator after the add unless the add was ignored by a silent rule, and a
\* bound entity stays bound across every operation on the region except the
\* add of an entity that takes its place: the full constant of a deferred
\* constant in a package body, an explicit entity over an implicit one or a
\* body over a declaration of the same signature key.
C15_BoundUntilSuperseded ==
    [][/\ (AddedNext /\ diags' = <<>> /\ ~Ignored(last'.ent))
             => last'.ent \in DeclaredNext(last'.ent.des)
       /\ SameRegion =>
             \A d \in Designators : \A e \in DeclaredAt(Top, d) :
                 \/ BoundNext(e, d)
                 \/ /\ AddedNext
                    /\ last'.ent.des = d
                    /\ Supersedes(last'.ent, e)
                    /\ last'.ent \in DeclaredNext(d)]_vars

C15_Witness ==
    /\ SameKeyCase
    /\ is_implicit(Old)
    /\ is_explicit(last.ent)
    /\ diags = <<>>
    /\ Old \notin EntsOf(Post)
    /\ last.ent \in EntsOf(Post)

(***************************************************************************)
(* Scope::extend                                                           *)
(***************************************************************************)
\* the region the innermost scope was extended from
Origin == scopes[Top - 1].region

\* the innermost scope is extend(Origin) with nothing added since
JustExtended == Top >= 2 /\ scopes[Top].region = Extended(Origin)

\* what extend(R).close() pushes is decided by R and the body cells: the
\* deferred constants of R when R is a package declaration, and the
\* protected types of R without body
CloseOfExtended ==
    LET lacks == "Deferred constant lacks corresponding full constant declaration in package body"
        missing == "Missing body for protected type"
        deferred == {d \in Designators :
                        /\ Origin.kind = "PackageDeclaration"
                        /\ Origin.entities[d].tag = "Single"
                        /\ is_deferred_constant(Origin.entities[d].ent)}
        unset == {d \in Designators :
                        /\ Origin.entities[d].tag = "Single"
                        /\ is_protected_type(Origin.entities[d].ent)
                        /\ Origin.entities[d].ent.id \notin body_pos}
    IN /\ Reported(lacks) = deferred
       /\ Reported(missing) = unset
       /\ Len(diags) = Cardinality(deferred) + Cardinality(unset)

\* C16: an operation through an extended scope (add, visibility, close)
\* leaves the region it was extended from, and every enclosing scope, as it
\* was; close changes neither the scopes nor the body cells, and what
\* extend(R).close() pushes depends on R and the body cells only, so that a
\* second extend(R).close() pushes the same diagnostics.
C16_ExtendLeavesRegion ==
    /\ []((Closed /\ JustExtended) => CloseOfExtended)
    /\ [][/\ SameRegion => SubSeq(scopes', 1, Top - 1) = SubSeq(scopes, 1, Top - 1)
          /\ last'.op = "close" => (scopes' = scopes /\ body_pos' = body_pos)
          /\ last'.op = "extend" =>
                /\ SubSeq(scopes', 1, Top) = scopes
                /\ scopes'[Top + 1].region.entities = scopes[Top].region.entities
                /\ scopes'[Top + 1].region.visibility = scopes[Top].region.visibility]_vars

C16_Witness ==
    /\ Closed
    /\ JustExtended
    /\ Top = MaxDepth
    /\ Origin.kind = "PackageBody"
    /\ Origin.entities # scopes[1].region.entities
    /\ Origin.visibility # scopes[1].region.visibility
    /\ DeferredBound # {}
    /\ diags = <<>>

(***************************************************************************)
(* TypeCheck                                                               *)
(***************************************************************************)
Rank(x) == CASE x = "Ok" -> 0 [] x = "Unknown" -> 1 [] OTHER -> 2

Greater(x, y) == IF Rank(x) >= Rank(y) THEN x ELSE y

\* C20: combine is the maximum under Ok < Unknown < NotOk: commutative,
\* associative, with identity Ok and absorbing NotOk, and Unknown combined
\* with Ok or Unknown is Unknown; add leaves the accumulator equal to
\* combine(old, x), so that an accumulator holds the maximum of what was
\* added to it.
C20_CombineIsMaximum ==
    /\ \A x, y \in TypeChecks :
          /\ combine(x, y) = Greater(x, y)
          /\ combine(x, y) = combine(y, x)
          /\ combine(x, "Ok") = x /\ combine("Ok", x) = x
          /\ combine(x, "NotOk") = "NotOk" /\ combine("NotOk", x) = "NotOk"
          /\ \A z \in TypeChecks :
                combine(combine(x, y), z) = combine(x, combine(y, z))
    /\ combine("Unknown", "Ok") = "Unknown"
    /\ combine("Ok", "Unknown") = "Unknown"
    /\ combine("Unknown", "Unknown") = "Unknown"
    /\ last.op = "TypeCheck_add" => check = combine(last.pre, last.d)
    /\ Rank(check) = Max({0} \cup {Rank(checked[n]) : n \in 1..Len(checked)})

C20_Witness ==
    /\ last.op = "TypeCheck_add"
    /\ Len(checked) = MaxChecks
    /\ last.pre = "NotOk"
    /\ last.d = "Unknown"
    /\ check = "NotOk"
    /\ checked[1] = "Unknown"

(***************************************************************************)
(* Implicit declarations of a type and their lookup                        *)
(***************************************************************************)
\* an implicit alias of another entity under the signature of ts
io == Ent(29, "a", "Alias", 2, TRUE, 31, 29)
ImplicitEnts == {s1, f1, el, io}

NextImplicit ==
    \/ \E ent \in ImplicitEnts : add(ent)
    \/ \E ent \in TypeEnts : add_implicit_declaration_aliases(ent)
    \/ \E ent \in {g} : make_potentially_visible(ent)
    \/ nested(MaxNest)
    \/ drop
    \/ lookup("a")

SpecImplicit == Init /\ [][NextImplicit]_vars

\* the last step published the implicit declarations of a type
Publishing ==
    /\ last.op = "add_implicit_declaration_aliases"
    /\ implicit_declarations(last.ent) # <<>>

\* a lookup in the innermost scope finds implicit under its signature
Discoverable(implicit) ==
    LET found == Scope_lookup(scopes, Top, implicit.des).res IN
    /\ found.tag = "Overloaded"
    /\ implicit.key \in DOMAIN found.map
    /\ as_actual(found.map[implicit.key]) = as_actual(implicit)

\* before the step, the region held an entity of the given sort under the
\* signature of implicit
OccupiedBy(implicit, explicit) ==
    LET b == last.pre[implicit.des] IN
    /\ b.tag = "Overloaded"
    /\ implicit.key \in DOMAIN b.map
    /\ is_explicit(b.map[implicit.key]) = explicit
    /\ as_actual(b.map[implicit.key]) # as_actual(implicit)

\* C21 as stated: after add_implicit_declaration_aliases(T), a lookup of the
\* designator of every implicit declaration I of T yields an overload set
\* that holds, under the signature of I, an entity whose actual entity is I,
\* unless an explicit entity already occupied that key.
C21_ImplicitDiscoverable ==
    Publishing =>
        \A n \in 1..Len(implicit_declarations(last.ent)) :
            LET implicit == implicit_declarations(last.ent)[n] IN
            Discoverable(implicit) \/ OccupiedBy(implicit, TRUE)

\* C21 as amended: the same, unless the region already held, under that
\* designator, a non-overloadable entity, or under that key an explicit
\* entity or an implicit one of another actual entity; in the first and
\* the last case the alias is rejected with one diagnostic.
C21_ImplicitDiscoverableOrRejected ==
    Publishing =>
        \A n \in 1..Len(implicit_declarations(last.ent)) :
            LET implicit == implicit_declarations(last.ent)[n] IN
            \/ Discoverable(implicit)
            \/ OccupiedBy(implicit, TRUE) /\ diags = <<>>
            \/ OccupiedBy(implicit, FALSE) /\ Len(diags) = 1
            \/ last.pre[implicit.des].tag = "Single" /\ Len(diags) = 1

C21_Witness ==
    /\ Publishing
    /\ Len(scopes) = 2
    /\ last.pre["a"].tag = "None"
    /\ Discoverable(ts)
    /\ Cardinality(DOMAIN Scope_lookup(scopes, Top, "a").res.map) = 2

(***************************************************************************)
(* Order of the diagnostics of one expression                              *)
(***************************************************************************)
\* the last step analysed a qualified expression
AnalyzedQualified ==
    /\ last.op \in {"analyze_expression", "analyze_expression_with_target_type"}
    /\ ast.form = "Qualified"

\* C22: diagnostics are pushed in traversal order: the type mark of a
\* qualified expression precedes its inner expression, so every diagnostic
\* about the type mark is pushed before every diagnostic about the inner
\* expression.
C22_TraversalOrder ==
    AnalyzedQualified =>
        \A i, j \in DOMAIN diags :
            (diags[i].pos = 1 /\ diags[j].pos = 2) => i < j

(***************************************************************************)
(* Order of the members of a reported collection                           *)
(***************************************************************************)
\* the related notes of the diagnostics of the last step
Notes == {diags[n].related : n \in DOMAIN diags}

Ascending(positions) ==
    \A i, j \in DOMAIN positions : i < j => positions[i] <= positions[j]

\* C23: where the members of an overload set are listed in the related
\* notes of a diagnostic, they appear in ascending source position of their
\* declarations, whatever the iteration order of the hash map.
C23_ReportedInSourceOrder == \A related \in Notes : Ascending(related)

(***************************************************************************)
(* Visibility additions and the cache                                      *)
(***************************************************************************)
\* C24: a visibility addition for one entity leaves no cache entry for the
\* designator it makes the entity visible under, also when that name is not
\* the entity's own designator, so that the next lookup of the name sees
\* the entity; make_all_potentially_visible and add_context_visibility
\* leave the cache empty.
C24_VisibilityClearsCache ==
    /\ last.op \in {"make_potentially_visible", "make_potentially_visible_with_name"}
          => /\ scopes[Top].cache[last.d] = NoneB
             /\ Scope_lookup(scopes, Top, last.d).res = lookup_uncached(scopes, Top, last.d)
    /\ last.op \in {"make_all_potentially_visible", "add_context_visibility"}
          => scopes[Top].cache = EmptyCache

(***************************************************************************)
(* Call-shaped names                                                       *)
(***************************************************************************)
\* the step rewrites the call under analysis to an indexed name
Rewritten == ast.form = "FunctionCall" /\ ast'.form = "Indexed"

\* an object, object alias, record field or deferred constant whose type is
\* an array or an access to an array
Indexable(ent) ==
    /\ ent.kind \in {"Object", "ObjectAlias", "ElementDeclaration", "DeferredConstant"}
    /\ subtype_base(ent) \in {"Array", "Array2", "Access"}

\* C25: a call-shaped name is rewritten to an indexed name only when its
\* prefix resolves to a single indexable entity and every actual is a
\* positional expression; in every other case the node stays a call.
C25_RewrittenOnlyWhenIndexable ==
    [][Rewritten =>
          /\ last'.pre.tag = "Single"
          /\ Indexable(last'.pre.ent)
          /\ ast.positional]_vars

\* the n-th actual or index expression of the node has been analysed: a
\* name that is not declared is reported at its position, a declared one
\* fills its reference slot
ArgAnalyzed(n) ==
    \/ ast.args[n] = "-"
    \/ \E l \in {Scope_lookup(scopes, Top, ast.args[n]).res} :
          IF l.tag = "Err"
          THEN \E i \in DOMAIN diags : diags[i].pos = ArgPos(n)
          ELSE ast.argrefs[n] = set_reference(l)

CallOps ==
    {"analyze_expression", "analyze_expression_with_target_type",
     "analyze_procedure_call"}

\* C27: whatever the prefix of a call-shaped name or procedure call resolves
\* to, the analysis of the call analyses every actual or index expression.
C27_ActualsAnalyzed ==
    [][(ast.form = "FunctionCall" /\ last'.op \in CallOps) =>
          \A n \in DOMAIN ast.args : ArgAnalyzed(n)']_vars

(***************************************************************************)
(* Indexed names                                                           *)
(***************************************************************************)
\* the number of index types of the array a type mark denotes, after one
\* dereference of an access type
Dimensions == [Array |-> 1, Array2 |-> 2, Access |-> 1]

Mismatches ==
    {i \in DOMAIN diags :
        diags[i].msg = "Number of indexes does not match array dimension"}

Counted(count, singular, plural_form) ==
    IF count = 1 THEN singular ELSE plural_form

\* C28: analyze_indexed_name with k index expressions on a type mark that
\* denotes an array with n index types pushes exactly one 'Number of indexes
\* does not match array dimension' error iff k # n, whose note at the
\* declaration of the array type reads '<type> has n dimension(s), got k
\* index(es)', singular exactly for a count of 1, and returns the element
\* type; on any other type mark it returns a 'cannot be indexed' error.
C28_IndexedName ==
    last.op = "analyze_indexed_name" =>
        IF last.d \in DOMAIN Dimensions
        THEN /\ Cardinality(Mismatches) = IF Len(ast.args) # Dimensions[last.d] THEN 1 ELSE 0
             /\ \A i \in Mismatches :
                   /\ Len(diags[i].related) = 1
                   /\ diags[i].related[1].pos = TypePos(diags[i].related[1].type)
                   /\ diags[i].related[1].type = (IF last.d = "Access" THEN "Array" ELSE last.d)
                   /\ diags[i].related[1].expected = Dimensions[last.d]
                   /\ diags[i].related[1].got = Len(ast.args)
                   /\ diags[i].related[1].dimension =
                          Counted(Dimensions[last.d], "dimension", "dimensions")
                   /\ diags[i].related[1].index = Counted(Len(ast.args), "index", "indexes")
             /\ last.res = [tag |-> "Type", type |-> "Integer"]
        ELSE /\ last.res.tag = "Err"
             /\ last.res.diag.msg = "cannot be indexed"

C28_Witness ==
    /\ last.op = "analyze_indexed_name"
    /\ last.d = "Access"
    /\ Len(ast.args) = 2
    /\ Cardinality(Mismatches) = 1
    /\ diags[1].related[1].dimension = "dimension"
    /\ diags[1].related[1].index = "indexes"

(***************************************************************************)
(* Positional elements of an array aggregate                               *)
(***************************************************************************)
\* the trial of the expression under analysis against the element type
ElemTrial(order) == analyze_expression_with_target_type(scopes, order, "Integer", ast)

\* the trial against the array type, of the expression the first trial left
ArrayTrial(order) ==
    analyze_expression_with_target_type(
        [scopes EXCEPT ![Top].cache = ElemTrial(order).cache], order, "Array",
        ElemTrial(order).ast)

\* the step analyses a positional element
PositionalElem ==
    /\ ast # NoAst
    /\ ast.form # "Aggregate"
    /\ last'.op = "analyze_1d_array_assoc_elem"

\* C26: for a positional element analyze_1d_array_assoc_elem forwards the
\* diagnostics of one of its two trials, never both; those of the element
\* type trial when its check is Ok; and an empty bag whenever one of the
\* two bags is empty.
C26_ForwardsCleanTrial ==
    [][PositionalElem =>
          \E order \in HashOrders :
              \E elem \in {ElemTrial(order).diags}, array \in {ArrayTrial(order).diags} :
                  /\ diags' \in {elem, array}
                  /\ ElemTrial(order).ret.check = "Ok" => diags' = elem
                  /\ (elem = <<>> \/ array = <<>>) => diags' = <<>>]_vars

(***************************************************************************)
(* Selected names with a design unit as prefix                             *)
(***************************************************************************)
\* C29: selecting a suffix from a package, package instance or local
\* package instance returns exactly the immediate binding of the suffix in
\* the region of the package, or the 'No declaration within' error, and so
\* never an entity that is only potentially visible in the package or
\* declared in a scope around it; a prefix of another kind (libraries,
\* objects, aliases and record elements apart) gives the 'may not be the
\* prefix of a selected name' error.
C29_SelectedFromPackage ==
    last.op = "lookup_selected" =>
        IF last.ent.kind \in {"Package", "PackageInstance", "LocalPackageInstance"}
        THEN IF scopes[Top].region.entities[last.d].tag # "None"
             THEN last.res = scopes[Top].region.entities[last.d]
             ELSE last.res = Err("No declaration within")
        ELSE last.res = Err("Invalid selected name prefix")

C29_Witness ==
    /\ last.op = "lookup_selected"
    /\ last.ent.kind = "PackageInstance"
    /\ Len(scopes) = 2
    /\ scopes[1].region.entities[last.d].tag # "None"
    /\ \E p \in scopes[2].region.visibility : p.name = last.d
    /\ Scope_lookup(scopes, Top, last.d).res.tag # "Err"
    /\ last.res = Err("No declaration within")

(***************************************************************************)
(* Ambiguous visible candidates                                            *)
(***************************************************************************)
\* the potentially visible candidates for d are ambiguous, or a single
\* entity that is not overloadable
NoVisibleOverloads(d) == lookup_visible(scopes, Top, d).tag \in {"Err", "Single"}

\* C30: Scope::lookup returns the ambiguity error only when no region of the
\* scope chain declares the designator; when the enclosing walk finds an
\* overload set and the visible candidates are ambiguous or a single entity
\* that is not overloadable, the lookup returns exactly the enclosing
\* overload set, reports nothing and caches that result.
C30_AmbiguityOnlyWhenUndeclared ==
    last.op = "lookup" =>
        /\ last.res = Err("ambiguous") =>
              \A i \in 1..Top : scopes[i].region.entities[last.d].tag = "None"
        /\ (lookup_enclosing(scopes, Top, last.d).tag = "Overloaded"
               /\ NoVisibleOverloads(last.d)) =>
              /\ last.res = lookup_enclosing(scopes, Top, last.d)
              /\ diags = <<>>
              /\ scopes[Top].cache[last.d] = last.res

====
